---- MODULE Spec2Model ----
(***************************************************************************)
(* A model of the Basic IR tools of lal-checkers:                          *)
(*   - ExprEvaluator and ExprSolver (lalcheck/irs/basic/tools.py),         *)
(*   - CFGBuilder (lalcheck/irs/basic/tools.py),                           *)
(*   - the lowering of conditionals by the libadalang frontend             *)
(*     (lalcheck/irs/basic/frontends/lal.py),                              *)
(*   - Models (lalcheck/irs/basic/tools.py),                               *)
(*   - the checkers and their query on an analysis result                  *)
(*     (checkers/check_variants.py, lalcheck/checkers),                    *)
(*   - ConstExprEvaluator, record_fields and get_field_info                *)
(*     (lalcheck/ai/irs/basic/frontends/lal/utils.py),                     *)
(*   - the fixpoint engine that computes the analysis result.              *)
(* The abstract domains and the operator semantics (lalcheck.domain_ops)   *)
(* are not part of the sources at hand; they are modelled as interval and  *)
(* powerset domains with best-abstraction forward and inverse semantics.   *)
(***************************************************************************)
EXTENDS Integers, Sequences, FiniteSets, TLC

VARIABLES
    pc,         \* which operation has run: "start", "evaluated", "solved", "visited", ...
    expr,       \* the expression handed to eval / solve / visit
    env,        \* the environment (dict Identifier -> value) as it was before the call
    expected,   \* the expected value handed to ExprSolver.visit_*
    env_after,  \* the caller's environment object after the call
    ok,         \* the boolean returned by ExprSolver.visit_*
    result,     \* the dict returned by ExprSolver.solve
    value,      \* the value returned by ExprEvaluator.eval
    subp,       \* the Ada subprogram body handed to the frontend
    prgm,       \* the Basic IR program: a sequence of statements
    cfg,        \* the Digraph returned by CFGBuilder.visit_program
    models,     \* the Models object: its two caches, and what its calls returned
    analysis,   \* the analysis result a checker queries and the checker's output; the
                \* table, worklist and visit counts of the fixpoint engine
    constexpr,  \* the expression handed to ConstExprEvaluator, and the outcome
    record      \* the record declaration handed to record_fields, and the fields returned

exprVars == <<expr, env, expected, env_after, ok, result, value>>

cfgVars == <<subp, prgm, cfg>>

auxVars == <<models, analysis, constexpr, record>>

vars == <<pc, expr, env, expected, env_after, ok, result, value, subp, prgm, cfg,
          models, analysis, constexpr, record>>

(***************************************************************************)
(* Bounds.                                                                 *)
(***************************************************************************)
\* integers of the bounded integer type are 0..MaxInt
MaxInt == 2
\* expressions have at most MaxSize nodes
MaxSize == 5
\* Basic IR programs handed to the CFG builder have at most MaxStmts statements
MaxStmts == 3
\* Ada subprogram bodies handed to the frontend have at most MaxAdaStmts statements
MaxAdaStmts == 2

\* the number of Models.of calls made on one Models object
MaxOfCalls == 3
\* an analysis result stores environments under at most MaxTraces traces at a node
MaxTraces == 2
\* expressions handed to ConstExprEvaluator have at most MaxConstSize nodes
MaxConstSize == 4
\* the number of times one ConstExprEvaluator evaluates the expression
MaxEvals == 2
\* the graph handed to the purpose query has MaxCarriers nodes
MaxCarriers == 2
\* a variant part of a record handed to record_fields has at most MaxVariants variants
MaxVariants == 2
\* the programs handed to the fixpoint engine have at most MaxEngineStmts statements
MaxEngineStmts == 3
\* the worklist loop visits one node at most MaxVisits times
MaxVisits == 6

\* the parts of the state an operation of another component leaves unset
NoModels == [used |-> FALSE]

NoAnalysis == [used |-> FALSE]

NoRecord == [used |-> FALSE]

NoConstExpr == [used |-> FALSE]

(***************************************************************************)
(* Domains: abstract values are sets of concrete values.  The integer      *)
(* domain holds intervals only, the boolean domain every subset.           *)
(***************************************************************************)
IntVals == 0..MaxInt

SetMin(S) == CHOOSE a \in S : \A b \in S : a <= b

SetMax(S) == CHOOSE a \in S : \A b \in S : b <= a

\* the smallest interval holding S
Hull(S) == IF S = {} THEN {} ELSE SetMin(S)..SetMax(S)

IntDomain == {lo..hi : lo \in IntVals, hi \in IntVals}

BoolDomain == SUBSET BOOLEAN

DomainValues(dom) == IF dom = "int" THEN IntDomain ELSE BoolDomain

Meet(dom, a, b) == a \cap b

IsEmpty(dom, a) == a = {}

\* the abstraction of a set of concrete values in a domain
Abstract(dom, S) == IF dom = "int" THEN Hull(S) ELSE S

\* boolean_ops.true
boolean_true == {TRUE}

\* a literal's value is a Python int (a numeral) or a Python str (the text
\* of an enumeration literal)
PyInt(i) == <<"int", i>>

PyStr(t) == <<"str", t>>

\* the literal builders: numerals are built from their integer value,
\* enumeration literals of Boolean from their text
Builder(dom, val) ==
    IF dom = "int" THEN {val[2]}
    ELSE IF val[2] = "True" THEN {TRUE} ELSE {FALSE}

(***************************************************************************)
(* Concrete and abstract operator semantics.  A concrete operation is      *)
(* partial: it yields the set of its results, empty when the result        *)
(* leaves the integer type.                                                *)
(***************************************************************************)
ConcUn(sym, a) ==
    IF sym = "!" THEN {~a}
    ELSE {}

ConcBin(sym, a, b) ==
    CASE sym = "<"  -> {a < b}
      [] sym = "==" -> {a = b}
      [] sym = "+"  -> {a + b} \cap IntVals
      [] OTHER      -> {}

\* forward semantics: definition(operand) and definition(lhs, rhs)
DefUn(sym, sig, v) ==
    Abstract(sig[2], UNION {ConcUn(sym, a) : a \in v})

DefBin(sym, sig, l, r) ==
    Abstract(sig[3], UNION {ConcBin(sym, a, b) : a \in l, b \in r})

None == [some |-> FALSE]

\* inverse semantics: the operand-wise pre-images of `exp` within the
\* operands' current values, None when there is no solution
InvUn(sym, sig, exp, v) ==
    LET sols == {a \in v : ConcUn(sym, a) \cap exp # {}}
    IN  IF sols = {} THEN None
        ELSE [some |-> TRUE, e |-> Abstract(sig[1], sols)]

InvBin(sym, sig, exp, l, r) ==
    LET sols == {p \in l \X r : ConcBin(sym, p[1], p[2]) \cap exp # {}}
    IN  IF sols = {} THEN None
        ELSE [some |-> TRUE,
              lhs  |-> Abstract(sig[1], {p[1] : p \in sols}),
              rhs  |-> Abstract(sig[2], {p[2] : p \in sols})]

(***************************************************************************)
(* Basic IR expressions.  `hint` is the node's type hint.                  *)
(***************************************************************************)
Identifier(n, h) == [k |-> "ident", name |-> n, hint |-> h]

Lit(v, h) == [k |-> "lit", val |-> v, hint |-> h]

UnExpr(op, e, h) == [k |-> "un", op |-> op, e |-> e, hint |-> h]

BinExpr(l, op, r, h) == [k |-> "bin", lhs |-> l, op |-> op, rhs |-> r, hint |-> h]

IntVars == {"x", "y"}

BoolVars == {"b"}

Vars == IntVars \cup BoolVars

VarHint(n) == IF n \in IntVars THEN "int" ELSE "bool"

\* the numerals written in the expressions
IntLits == {0, 1}

IntAtoms == {Identifier(n, "int") : n \in IntVars} \cup {Lit(PyInt(v), "int") : v \in IntLits}

BoolAtoms == {Identifier(n, "bool") : n \in BoolVars}
             \cup {Lit(PyStr(t), "bool") : t \in {"True", "False"}}

\* the pairs of sizes of the operands of a binary node of n nodes
Splits(n) == {p \in (1..n) \X (1..n) : p[1] + p[2] = n - 1}

RECURSIVE IntExprs(_)
\* the well-typed integer expressions of exactly n nodes
IntExprs(n) ==
    IF n < 1 THEN {}
    ELSE IF n = 1 THEN IntAtoms
    ELSE UNION {{BinExpr(l, "+", r, "int") : l \in IntExprs(p[1]), r \in IntExprs(p[2])}
                : p \in Splits(n)}

RECURSIVE BoolExprs(_)
\* the well-typed boolean expressions of exactly n nodes
BoolExprs(n) ==
    IF n < 1 THEN {}
    ELSE IF n = 1 THEN BoolAtoms
    ELSE {UnExpr("!", e, "bool") : e \in BoolExprs(n - 1)}
         \cup UNION {{BinExpr(l, op, r, "bool") :
                          l \in IntExprs(p[1]), r \in IntExprs(p[2]), op \in {"<", "=="}}
                     : p \in Splits(n)}
         \cup UNION {{BinExpr(l, "==", r, "bool") :
                          l \in BoolExprs(p[1]), r \in BoolExprs(p[2])}
                     : p \in Splits(n)}

Predicates == UNION {BoolExprs(n) : n \in 1..MaxSize}

Exprs == Predicates \cup UNION {IntExprs(n) : n \in 1..MaxSize}

\* the environments: every variable holds a value of its domain (bottom included)
Envs == {[n \in Vars |-> IF n = "x" THEN vx ELSE IF n = "y" THEN vy ELSE vb] :
            vx \in IntDomain, vy \in IntDomain, vb \in BoolDomain}

(***************************************************************************)
(* Models.of: the model entry of a node.                                   *)
(***************************************************************************)
\* Models._typeable_to_interp: the domain interpreting a node's type hint
typeable_to_interp(node) == node.hint

Models_visit_unexpr(unexpr) ==
    [domain |-> typeable_to_interp(unexpr),
     sym    |-> unexpr.op,
     tpe    |-> <<typeable_to_interp(unexpr.e), typeable_to_interp(unexpr)>>]

Models_visit_binexpr(binexpr) ==
    [domain |-> typeable_to_interp(binexpr),
     sym    |-> binexpr.op,
     tpe    |-> <<typeable_to_interp(binexpr.lhs), typeable_to_interp(binexpr.rhs),
                  typeable_to_interp(binexpr)>>]

Models_visit_ident(ident) == [domain |-> typeable_to_interp(ident)]

Models_visit_lit(lit) == [domain |-> typeable_to_interp(lit)]

\* model[node]
ModelOf(node) ==
    CASE node.k = "un"    -> Models_visit_unexpr(node)
      [] node.k = "bin"   -> Models_visit_binexpr(node)
      [] node.k = "ident" -> Models_visit_ident(node)
      [] node.k = "lit"   -> Models_visit_lit(node)

(***************************************************************************)
(* ExprEvaluator.  A visit returns the value and the environment object    *)
(* as the visit leaves it.                                                 *)
(***************************************************************************)
RECURSIVE EvalVisit(_, _)

\* empties the entry it reads
Evaluator_visit_ident_writes(ident, e) ==
    [val |-> e[ident.name],
     env |-> [e EXCEPT ![ident.name] = {}]]

Evaluator_visit_ident(ident, e) ==
    [val |-> e[ident.name], env |-> e]

\* applies the definition to the operands in the wrong order
Evaluator_visit_binexpr_swapped(binexpr, e) ==
    LET lhs == EvalVisit(binexpr.lhs, e)
        rhs == EvalVisit(binexpr.rhs, lhs.env)
        m   == ModelOf(binexpr)
    IN  [val |-> DefBin(m.sym, m.tpe, rhs.val, lhs.val), env |-> rhs.env]

Evaluator_visit_binexpr(binexpr, e) ==
    LET lhs == EvalVisit(binexpr.lhs, e)
        rhs == EvalVisit(binexpr.rhs, lhs.env)
        m   == ModelOf(binexpr)
    IN  [val |-> DefBin(m.sym, m.tpe, lhs.val, rhs.val), env |-> rhs.env]

Evaluator_visit_unexpr(unexpr, e) ==
    LET x == EvalVisit(unexpr.e, e)
        m == ModelOf(unexpr)
    IN  [val |-> DefUn(m.sym, m.tpe, x.val), env |-> x.env]

Evaluator_visit_lit(lit, e) ==
    [val |-> Builder(ModelOf(lit).domain, lit.val), env |-> e]

\* expr.visit(self, env)
EvalVisit(x, e) ==
    CASE x.k = "ident" -> Evaluator_visit_ident(x, e)
      [] x.k = "bin"   -> Evaluator_visit_binexpr(x, e)
      [] x.k = "un"    -> Evaluator_visit_unexpr(x, e)
      [] x.k = "lit"   -> Evaluator_visit_lit(x, e)

\* ExprEvaluator.eval
Evaluator_eval(x, e) == EvalVisit(x, e)

(***************************************************************************)
(* ExprSolver.  A visit narrows the environment object it is given in      *)
(* place and returns a boolean; here it returns the boolean and the        *)
(* environment object as the visit leaves it.                              *)
(***************************************************************************)
RECURSIVE SolverVisit(_, _, _)

\* dict.copy()
Copy(e) == [n \in DOMAIN e |-> e[n]]

\* the empty dict, returned by solve for an infeasible predicate
NoEnv == [n \in {} |-> {}]

\* installs the expected value without meeting it with the current one
Solver_visit_ident_overwrites(ident, e, exp) ==
    [ok |-> TRUE, env |-> [e EXCEPT ![ident.name] = exp]]

Solver_visit_ident(ident, e, exp) ==
    LET dom == ModelOf(ident).domain
    IN  [ok  |-> TRUE,
         env |-> [e EXCEPT ![ident.name] = Meet(dom, e[ident.name], exp)]]

\* drops the outcome of the right operand's recursion
Solver_visit_binexpr_lhs_only(binexpr, e, exp) ==
    LET m       == ModelOf(binexpr)
        lhs_val == Evaluator_eval(binexpr.lhs, e)
        rhs_val == Evaluator_eval(binexpr.rhs, lhs_val.env)
        inv_res == InvBin(m.sym, m.tpe, exp, lhs_val.val, rhs_val.val)
    IN  IF ~inv_res.some
        THEN [ok |-> FALSE, env |-> rhs_val.env]
        ELSE LET l == SolverVisit(binexpr.lhs, rhs_val.env, inv_res.lhs)
                 r == SolverVisit(binexpr.rhs, l.env, inv_res.rhs)
             IN  IF ~l.ok THEN l ELSE [ok |-> TRUE, env |-> r.env]

Solver_visit_binexpr(binexpr, e, exp) ==
    LET m       == ModelOf(binexpr)
        lhs_val == Evaluator_eval(binexpr.lhs, e)
        rhs_val == Evaluator_eval(binexpr.rhs, lhs_val.env)
        inv_res == InvBin(m.sym, m.tpe, exp, lhs_val.val, rhs_val.val)
    IN  IF ~inv_res.some
        THEN [ok |-> FALSE, env |-> rhs_val.env]
        ELSE LET l == SolverVisit(binexpr.lhs, rhs_val.env, inv_res.lhs)
             IN  \* `and` does not visit the right operand when the left one fails
                 IF ~l.ok THEN l
                 ELSE SolverVisit(binexpr.rhs, l.env, inv_res.rhs)

\* hands the node's own expected value to the operand
Solver_visit_unexpr_uninverted(unexpr, e, exp) ==
    LET m             == ModelOf(unexpr)
        expr_val      == Evaluator_eval(unexpr.e, e)
        expected_expr == InvUn(m.sym, m.tpe, exp, expr_val.val)
    IN  IF ~expected_expr.some
        THEN [ok |-> FALSE, env |-> expr_val.env]
        ELSE SolverVisit(unexpr.e, expr_val.env, exp)

Solver_visit_unexpr(unexpr, e, exp) ==
    LET m             == ModelOf(unexpr)
        expr_val      == Evaluator_eval(unexpr.e, e)
        expected_expr == InvUn(m.sym, m.tpe, exp, expr_val.val)
    IN  IF ~expected_expr.some
        THEN [ok |-> FALSE, env |-> expr_val.env]
        ELSE SolverVisit(unexpr.e, expr_val.env, expected_expr.e)

\* never fails
Solver_visit_lit_accepts(lit, e, exp) ==
    [ok |-> TRUE, env |-> e]

\* fails when the literal lies within the expected value
Solver_visit_lit_inverted(lit, e, exp) ==
    LET lit_dom == ModelOf(lit).domain
        lit_val == Evaluator_eval(lit, e)
    IN  [ok  |-> IsEmpty(lit_dom, Meet(lit_dom, exp, lit_val.val)),
         env |-> lit_val.env]

Solver_visit_lit(lit, e, exp) ==
    LET lit_dom == ModelOf(lit).domain
        lit_val == Evaluator_eval(lit, e)
    IN  [ok  |-> ~IsEmpty(lit_dom, Meet(lit_dom, exp, lit_val.val)),
         env |-> lit_val.env]

\* expr.visit(self, env, expected)
SolverVisit(x, e, exp) ==
    CASE x.k = "ident" -> Solver_visit_ident(x, e, exp)
      [] x.k = "bin"   -> Solver_visit_binexpr(x, e, exp)
      [] x.k = "un"    -> Solver_visit_unexpr(x, e, exp)
      [] x.k = "lit"   -> Solver_visit_lit(x, e, exp)

\* solves in the caller's dict instead of a copy
Solver_solve_in_place(x, e) ==
    LET r == SolverVisit(x, e, boolean_true)
    IN  [ret |-> IF ~r.ok THEN NoEnv ELSE r.env, arg |-> r.env]

\* ExprSolver.solve: `ret` is the dict returned, `arg` the caller's dict
\* after the call
Solver_solve(x, e) ==
    LET new_env == Copy(e)
        r       == SolverVisit(x, new_env, boolean_true)
    IN  [ret |-> IF ~r.ok THEN NoEnv ELSE r.env, arg |-> e]

(***************************************************************************)
(* Basic IR statements and programs.                                       *)
(***************************************************************************)
AssignStmt(id, e) == [k |-> "assign", id |-> id, expr |-> e]

ReadStmt(id) == [k |-> "read", id |-> id]

UseStmt(id) == [k |-> "use", id |-> id]

AssumeStmt(e) == [k |-> "assume", expr |-> e]

SplitStmt(fst, snd) == [k |-> "split", fst_stmts |-> fst, snd_stmts |-> snd]

LoopStmt(stmts) == [k |-> "loop", stmts |-> stmts]

AtomicStmts ==
    {AssignStmt(Identifier("x", "int"), Lit(PyInt(1), "int")),
     ReadStmt(Identifier("x", "int")),
     UseStmt(Identifier("x", "int")),
     AssumeStmt(Identifier("b", "bool"))}

RECURSIVE StmtsOfSize(_), StmtLists(_)
\* the statements made of exactly n statements, nested ones included
StmtsOfSize(n) ==
    IF n < 1 THEN {}
    ELSE (IF n = 1 THEN AtomicStmts ELSE {})
         \cup {LoopStmt(b) : b \in StmtLists(n - 1)}
         \cup UNION {{SplitStmt(a, b) : a \in StmtLists(i), b \in StmtLists(n - 1 - i)}
                     : i \in 0..(n - 1)}

\* the statement lists made of exactly n statements, nested ones included
StmtLists(n) ==
    IF n = 0 THEN {<<>>}
    ELSE UNION {{<<s>> \o rest : s \in StmtsOfSize(i), rest \in StmtLists(n - i)}
                : i \in 1..n}

Programs == UNION {StmtLists(n) : n \in 0..MaxStmts}

\* a statement of a kind CFGBuilder has no visit method for
UnknownStmt == [k |-> "goto"]

RECURSIVE WithUnknown(_)
\* the statement list with its use statements, nested ones included,
\* replaced by statements of the unknown kind
WithUnknown(stmts) ==
    [i \in 1..Len(stmts) |->
        LET s == stmts[i]
        IN  CASE s.k = "use"   -> UnknownStmt
              [] s.k = "split" -> SplitStmt(WithUnknown(s.fst_stmts), WithUnknown(s.snd_stmts))
              [] s.k = "loop"  -> LoopStmt(WithUnknown(s.stmts))
              [] OTHER         -> s]

\* the programs handed to the builder alone: those of the six kinds, and
\* those holding statements of the unknown kind
BuilderPrograms == Programs \cup {WithUnknown(p) : p \in Programs}

(***************************************************************************)
(* CFGBuilder.  The builder's fields are nodes, edges and key_counter; a   *)
(* visit returns the builder as it leaves it and the node it returns.      *)
(***************************************************************************)
NoStmt == [k |-> "None"]

NodeKinds == {"start", "split_join", "loop_start", "loop_join",
              "assign", "read", "use", "assume"}

\* CFGBuilder.__init__ followed by the resets of visit_program
NewBuilder == [nodes |-> <<>>, edges |-> <<>>,
               key_counter |-> [n \in NodeKinds |-> 0]]

\* CFGBuilder.fresh: the name and the incremented counter
fresh(st, name) ==
    [st   |-> [st EXCEPT !.key_counter[name] = @ + 1],
     name |-> <<name, st.key_counter[name]>>]

\* builds the node without passing the widening flag on
build_node_unmarked(st, name, is_widening_point, orig_node) ==
    LET f == fresh(st, name)
    IN  [st   |-> f.st,
         node |-> [name |-> f.name,
                   is_widening_point |-> FALSE,
                   node |-> orig_node]]

\* CFGBuilder.build_node
build_node(st, name, is_widening_point, orig_node) ==
    LET f == fresh(st, name)
    IN  [st   |-> f.st,
         node |-> [name |-> f.name,
                   is_widening_point |-> is_widening_point,
                   node |-> orig_node]]

RECURSIVE LinkAll(_, _, _)
LinkAll(edges, froms, new_node) ==
    IF froms = <<>> THEN edges
    ELSE LinkAll(Append(edges, <<Head(froms), new_node>>), Tail(froms), new_node)

\* CFGBuilder.register_and_link
register_and_link(st, froms, new_node) ==
    [st EXCEPT !.nodes = Append(@, new_node),
               !.edges = LinkAll(@, froms, new_node)]

RECURSIVE visit_stmts(_, _, _)

\* a, then b: the value of b, with a evaluated first.  It fixes the order
\* in which TLC evaluates the steps of a visit to the order of the code's
\* statements.
Then(a, b) == IF a = a THEN b ELSE b

\* a visit that returns node cur, leaving the builder as st
Return(st, cur) == [st |-> st, cur |-> cur, raised |-> FALSE]

\* a visit left by an exception, the builder being st; nothing is returned
Raise(st, cur) == [st |-> st, cur |-> cur, raised |-> TRUE]

\* visit_assign, visit_read, visit_use, visit_assume
visit_atomic(st, stmt, start) ==
    LET n == build_node(st, stmt.k, FALSE, stmt)
    IN  Return(register_and_link(n.st, <<start>>, n.node), n.node)

\* lowers the second branch from the end of the first one
visit_split_chained(st, splitstmt, start) ==
    LET end_fst == visit_stmts(st, splitstmt.fst_stmts, start)
        end_snd == visit_stmts(end_fst.st, splitstmt.snd_stmts, end_fst.cur)
        join    == build_node(end_snd.st, "split_join", FALSE, NoStmt)
    IN  IF end_fst.raised THEN end_fst
        ELSE IF end_snd.raised THEN end_snd
        ELSE Then(end_fst.cur, Then(end_snd.cur,
             Return(register_and_link(join.st, <<end_fst.cur, end_snd.cur>>, join.node),
                    join.node)))

visit_split(st, splitstmt, start) ==
    LET end_fst == visit_stmts(st, splitstmt.fst_stmts, start)
        end_snd == visit_stmts(end_fst.st, splitstmt.snd_stmts, start)
        join    == build_node(end_snd.st, "split_join", FALSE, NoStmt)
    IN  IF end_fst.raised THEN end_fst
        ELSE IF end_snd.raised THEN end_snd
        ELSE Then(end_fst.cur, Then(end_snd.cur,
             Return(register_and_link(join.st, <<end_fst.cur, end_snd.cur>>, join.node),
                    join.node)))

\* links the loop entry from the preceding node only
visit_loop_no_back_edge(st, loopstmt, start) ==
    LET loop_start == build_node(st, "loop_start", TRUE, NoStmt)
        end        == visit_stmts(loop_start.st, loopstmt.stmts, loop_start.node)
        join       == build_node(end.st, "loop_join", FALSE, NoStmt)
        st1        == register_and_link(join.st, <<start>>, loop_start.node)
    IN  IF end.raised THEN end
        ELSE Then(end.cur,
             Return(register_and_link(st1, <<loop_start.node>>, join.node), join.node))

\* marks the loop exit, not the loop entry, as widening point
visit_loop_marks_join(st, loopstmt, start) ==
    LET loop_start == build_node(st, "loop_start", FALSE, NoStmt)
        end        == visit_stmts(loop_start.st, loopstmt.stmts, loop_start.node)
        join       == build_node(end.st, "loop_join", TRUE, NoStmt)
        st1        == register_and_link(join.st, <<start, end.cur>>, loop_start.node)
    IN  IF end.raised THEN end
        ELSE Then(end.cur,
             Return(register_and_link(st1, <<loop_start.node>>, join.node), join.node))

visit_loop(st, loopstmt, start) ==
    LET loop_start == build_node(st, "loop_start", TRUE, NoStmt)
        end        == visit_stmts(loop_start.st, loopstmt.stmts, loop_start.node)
        join       == build_node(end.st, "loop_join", FALSE, NoStmt)
        st1        == register_and_link(join.st, <<start, end.cur>>, loop_start.node)
    IN  IF end.raised THEN end
        ELSE Then(end.cur,
             Return(register_and_link(st1, <<loop_start.node>>, join.node), join.node))

\* the statement kinds CFGBuilder has a visit method for
AtomicKinds == {"assign", "read", "use", "assume"}

\* a statement of a kind without visit method is passed over
visit_stmt_skips_unknown(st, stmt, cur) ==
    CASE stmt.k = "split"      -> visit_split(st, stmt, cur)
      [] stmt.k = "loop"       -> visit_loop(st, stmt, cur)
      [] stmt.k \in AtomicKinds -> visit_atomic(st, stmt, cur)
      [] OTHER                 -> Return(st, cur)

\* stmt.visit(self, cur): the dispatch to the visit method of the
\* statement's kind; a kind without one is an error
visit_stmt(st, stmt, cur) ==
    CASE stmt.k = "split"      -> visit_split(st, stmt, cur)
      [] stmt.k = "loop"       -> visit_loop(st, stmt, cur)
      [] stmt.k \in AtomicKinds -> visit_atomic(st, stmt, cur)
      [] OTHER                 -> Raise(st, cur)

\* visits every statement from the node the sequence starts at
visit_stmts_unchained(st, stmts, cur) ==
    IF stmts = <<>> THEN Return(st, cur)
    ELSE LET r == visit_stmt(st, Head(stmts), cur)
         IN  IF r.raised THEN r
             ELSE Then(r.cur, visit_stmts(r.st, Tail(stmts), cur))

\* CFGBuilder.visit_stmts
visit_stmts(st, stmts, cur) ==
    IF stmts = <<>> THEN Return(st, cur)
    ELSE LET r == visit_stmt(st, Head(stmts), cur)
         IN  IF r.raised THEN r
             ELSE Then(r.cur, visit_stmts(r.st, Tail(stmts), r.cur))

\* the start node built by visit_program
StartOf(st) == build_node(st, "start", FALSE, NoStmt)

\* hands the registered nodes to the graph, the start node left out
visit_program_without_start(stmts) ==
    LET start == StartOf(NewBuilder)
        r     == visit_stmts(start.st, stmts, start.node)
    IN  [raised |-> r.raised,
         graph  |-> IF r.raised THEN None
                    ELSE [nodes |-> r.st.nodes, edges |-> r.st.edges]]

\* CFGBuilder.visit_program: Digraph(self.nodes + [start], self.edges), or
\* the exception of a visit
visit_program(stmts) ==
    LET start == StartOf(NewBuilder)
        r     == visit_stmts(start.st, stmts, start.node)
    IN  [raised |-> r.raised,
         graph  |-> IF r.raised THEN None
                    ELSE [nodes |-> Append(r.st.nodes, start.node),
                          edges |-> r.st.edges]]

NoCfg == [nodes |-> <<>>, edges |-> <<>>]

(***************************************************************************)
(* The libadalang frontend (_gen_ir).  Ada nodes carry the declaration     *)
(* that name resolution gives for their type (`type`).  transform_expr is  *)
(* written in continuation-passing style; a continuation is modelled as a  *)
(* record naming the closure and holding what it captures.                 *)
(***************************************************************************)
AdaIdentifier(n, t) == [k |-> "Identifier", text |-> n, type |-> t]

AdaEnumLiteral(n, t) == [k |-> "EnumLiteral", text |-> n, type |-> t]

AdaParenExpr(e) == [k |-> "ParenExpr", f_expr |-> e]

AdaBinOp(l, op, r, t) ==
    [k |-> "BinOp", f_left |-> l, f_op |-> op, f_right |-> r, type |-> t]

AdaUnOp(op, e, t) == [k |-> "UnOp", f_op |-> op, f_expr |-> e, type |-> t]

AdaIfExpr(c, t, e, tp) ==
    [k |-> "IfExpr", f_cond_expr |-> c, f_then_expr |-> t, f_else_expr |-> e,
     type |-> tp]

AdaAssignStmt(dest, e) == [k |-> "AssignStmt", f_dest |-> dest, f_expr |-> e]

AdaIfStmt(c, t, e) ==
    [k |-> "IfStmt", f_cond_expr |-> c, f_then_stmts |-> t, f_else_stmts |-> e]

AdaCaseStmt == [k |-> "CaseStmt"]

AdaLoopStmt(b) == [k |-> "LoopStmt", f_stmts |-> b]

AdaWhileLoopStmt(c, b) == [k |-> "WhileLoopStmt", f_expr |-> c, f_stmts |-> b]

AdaObjectDecl(ids, t, e) ==
    [k |-> "ObjectDecl", f_ids |-> ids, type |-> t, f_default_expr |-> e]

\* _lal_op_type_2_symbol
transform_operator(lal_op, arity) ==
    CASE lal_op = "OpLt" /\ arity = 2  -> "<"
      [] lal_op = "OpEq" /\ arity = 2  -> "=="
      [] lal_op = "OpNot" /\ arity = 1 -> "!"

RECURSIVE transform_expr(_, _), apply_ctx(_, _), transform_stmt(_), transform_stmts(_)

\* the if statement's cond_ctx, with the else branch assuming the
\* condition instead of its negation
IfStmt_cond_ctx_unnegated(stmt, cond) ==
    LET then_stmts == <<AssumeStmt(cond)>> \o transform_stmts(stmt.f_then_stmts)
        else_stmts == <<AssumeStmt(cond)>> \o transform_stmts(stmt.f_else_stmts)
    IN  <<SplitStmt(then_stmts, else_stmts)>>

\* transform_stmt, IfStmt: cond_ctx
IfStmt_cond_ctx(stmt, cond) ==
    LET not_cond   == UnExpr("!", cond, cond.hint)
        then_stmts == <<AssumeStmt(cond)>> \o transform_stmts(stmt.f_then_stmts)
        else_stmts == <<AssumeStmt(not_cond)>> \o transform_stmts(stmt.f_else_stmts)
    IN  <<SplitStmt(then_stmts, else_stmts)>>

\* transform_expr, IfExpr: else_ctx, with `ctx` the enclosing continuation
IfExpr_else_ctx(cond, thn, ctx, els) ==
    LET not_cond   == UnExpr("!", cond, cond.hint)
        then_stmts == <<AssumeStmt(cond)>> \o apply_ctx(ctx, thn)
        else_stmts == <<AssumeStmt(not_cond)>> \o apply_ctx(ctx, els)
    IN  <<SplitStmt(then_stmts, else_stmts)>>

\* ctx(value): the call of a continuation
apply_ctx(ctx, v) ==
    CASE ctx.k = "assign"   -> <<AssignStmt(ctx.dest, v)>>
      [] ctx.k = "decl"     ->
            [i \in 1..Len(ctx.decl.f_ids) |->
                AssignStmt(Identifier(ctx.decl.f_ids[i], ctx.decl.type), v)]
      [] ctx.k = "if_stmt"  -> IfStmt_cond_ctx(ctx.stmt, v)
      [] ctx.k = "while"    ->
            <<LoopStmt(<<AssumeStmt(v)>> \o transform_stmts(ctx.stmt.f_stmts))>>
      [] ctx.k = "lhs_ctx"  ->
            transform_expr(ctx.expr.f_right,
                           [k |-> "rhs_ctx", expr |-> ctx.expr, lhs |-> v, ctx |-> ctx.ctx])
      [] ctx.k = "rhs_ctx"  ->
            apply_ctx(ctx.ctx, BinExpr(ctx.lhs, transform_operator(ctx.expr.f_op, 2), v,
                                       ctx.expr.type))
      [] ctx.k = "un_ctx"   ->
            apply_ctx(ctx.ctx, UnExpr(transform_operator(ctx.expr.f_op, 1), v,
                                      ctx.expr.type))
      [] ctx.k = "cond_ctx" ->
            transform_expr(ctx.expr.f_then_expr,
                           [k |-> "then_ctx", expr |-> ctx.expr, cond |-> v, ctx |-> ctx.ctx])
      [] ctx.k = "then_ctx" ->
            transform_expr(ctx.expr.f_else_expr,
                           [k |-> "else_ctx", cond |-> ctx.cond, thn |-> v, ctx |-> ctx.ctx])
      [] ctx.k = "else_ctx" ->
            IfExpr_else_ctx(ctx.cond, ctx.thn, ctx.ctx, v)

transform_expr(e, ctx) ==
    CASE e.k = "ParenExpr"   -> transform_expr(e.f_expr, ctx)
      [] e.k = "BinOp"       ->
            transform_expr(e.f_left, [k |-> "lhs_ctx", expr |-> e, ctx |-> ctx])
      [] e.k = "UnOp"        ->
            transform_expr(e.f_expr, [k |-> "un_ctx", expr |-> e, ctx |-> ctx])
      [] e.k = "IfExpr"      ->
            transform_expr(e.f_cond_expr, [k |-> "cond_ctx", expr |-> e, ctx |-> ctx])
      [] e.k = "Identifier"  -> apply_ctx(ctx, Identifier(e.text, e.type))
      [] e.k = "EnumLiteral" -> apply_ctx(ctx, Lit(PyStr(e.text), e.type))

transform_decl(decl) ==
    IF decl.f_default_expr = <<>>
    THEN [i \in 1..Len(decl.f_ids) |-> ReadStmt(Identifier(decl.f_ids[i], decl.type))]
    ELSE transform_expr(decl.f_default_expr[1], [k |-> "decl", decl |-> decl])

transform_stmt(stmt) ==
    CASE stmt.k = "AssignStmt"    ->
            transform_expr(stmt.f_expr,
                           [k |-> "assign",
                            dest |-> Identifier(stmt.f_dest.text, stmt.f_dest.type)])
      [] stmt.k = "IfStmt"        ->
            transform_expr(stmt.f_cond_expr, [k |-> "if_stmt", stmt |-> stmt])
      [] stmt.k = "CaseStmt"      -> <<>>
      [] stmt.k = "LoopStmt"      -> <<LoopStmt(transform_stmts(stmt.f_stmts))>>
      [] stmt.k = "WhileLoopStmt" ->
            transform_expr(stmt.f_expr, [k |-> "while", stmt |-> stmt])

RECURSIVE transform_decls(_)
transform_decls(decls) ==
    IF decls = <<>> THEN <<>>
    ELSE transform_decl(Head(decls)) \o transform_decls(Tail(decls))

transform_stmts(stmts) ==
    IF stmts = <<>> THEN <<>>
    ELSE transform_stmt(Head(stmts)) \o transform_stmts(Tail(stmts))

\* _gen_ir: irt.Program(transform_decls(...) + transform_stmts(...))
gen_ir(sp) == transform_decls(sp.f_decls) \o transform_stmts(sp.f_stmts)

(***************************************************************************)
(* The Ada subprogram bodies given to the frontend.                        *)
(***************************************************************************)
AdaB == AdaIdentifier("b", "bool")

AdaC == AdaIdentifier("c", "bool")

AdaIfBCB == AdaIfExpr(AdaB, AdaC, AdaEnumLiteral("True", "bool"), "bool")

\* the expressions used as conditions and as assigned values
AdaExprs ==
    {AdaB,
     AdaIfBCB,
     AdaBinOp(AdaUnOp("OpNot", AdaParenExpr(AdaC), "bool"), "OpEq", AdaIfBCB, "bool")}

RECURSIVE AdaStmtsOfSize(_), AdaStmtLists(_)
\* the Ada statements made of exactly n statements, nested ones included
AdaStmtsOfSize(n) ==
    IF n < 1 THEN {}
    ELSE (IF n = 1 THEN {AdaAssignStmt(AdaB, e) : e \in AdaExprs} \cup {AdaCaseStmt}
                   ELSE {})
         \cup {AdaLoopStmt(b) : b \in AdaStmtLists(n - 1)}
         \cup {AdaWhileLoopStmt(c, b) : c \in AdaExprs, b \in AdaStmtLists(n - 1)}
         \cup UNION {{AdaIfStmt(c, a, b) :
                          c \in AdaExprs, a \in AdaStmtLists(i), b \in AdaStmtLists(n - 1 - i)}
                     : i \in 0..(n - 1)}

AdaStmtLists(n) ==
    IF n = 0 THEN {<<>>}
    ELSE UNION {{<<s>> \o rest : s \in AdaStmtsOfSize(i), rest \in AdaStmtLists(n - i)}
                : i \in 1..n}

AdaDecls ==
    {<<>>,
     <<AdaObjectDecl(<<"b">>, "bool", <<>>),
       AdaObjectDecl(<<"c", "d">>, "bool", <<AdaIfBCB>>)>>}

Subps == {[f_decls |-> d, f_stmts |-> b] :
             d \in AdaDecls, b \in UNION {AdaStmtLists(n) : n \in 0..MaxAdaStmts}}

(***************************************************************************)
(* The behaviours: an expression and an environment are chosen, then one   *)
(* of eval, solve and visit is applied to them.                            *)
(***************************************************************************)

RECURSIVE Idents(_)
\* the names of the identifiers occurring in an expression
Idents(x) ==
    CASE x.k = "ident" -> {x.name}
      [] x.k = "lit"   -> {}
      [] x.k = "un"    -> Idents(x.e)
      [] x.k = "bin"   -> Idents(x.lhs) \cup Idents(x.rhs)

Top(dom) == IF dom = "int" THEN IntVals ELSE BOOLEAN

\* the environments an expression is used with: the variables it mentions
\* hold any value of their domain, the others the value the analysis
\* starts them with (top)
EnvsFor(x) == {e \in Envs : \A n \in Vars \ Idents(x) : e[n] = Top(VarHint(n))}

Init ==
    /\ pc = "start"
    /\ expr \in Exprs
    /\ env \in EnvsFor(expr)
    /\ expected = {}
    /\ env_after = env
    /\ ok = TRUE
    /\ result = NoEnv
    /\ value = {}
    /\ models = NoModels
    /\ analysis = NoAnalysis
    /\ constexpr = NoConstExpr
    /\ record = NoRecord
    /\ subp = <<>>
    /\ prgm = <<>>
    /\ cfg = NoCfg

Eval ==
    /\ pc = "start"
    /\ LET r == Evaluator_eval(expr, env)
       IN  /\ value' = r.val
           /\ env_after' = r.env
    /\ pc' = "evaluated"
    /\ UNCHANGED <<expr, env, expected, ok, result>>
    /\ UNCHANGED cfgVars
    /\ UNCHANGED auxVars

\* solver.solve(expr, env) on a predicate
Solve ==
    /\ pc = "start"
    /\ expr \in Predicates
    /\ LET r == Solver_solve(expr, env)
       IN  /\ result' = r.ret
           /\ env_after' = r.arg
    /\ pc' = "solved"
    /\ UNCHANGED <<expr, env, expected, ok, value>>
    /\ UNCHANGED cfgVars
    /\ UNCHANGED auxVars

\* expr.visit(solver, env, expected) for an expected value of the
\* expression's domain
Visit ==
    /\ pc = "start"
    /\ \E exp \in DomainValues(ModelOf(expr).domain) :
          /\ expected' = exp
          /\ LET r == SolverVisit(expr, env, exp)
             IN  /\ ok' = r.ok
                 /\ env_after' = r.env
    /\ pc' = "visited"
    /\ UNCHANGED <<expr, env, result, value>>
    /\ UNCHANGED cfgVars
    /\ UNCHANGED auxVars

Next == Eval \/ Solve \/ Visit

(***************************************************************************)
(* Concrete semantics, used to state soundness.                            *)
(***************************************************************************)
\* the concrete value a literal denotes
LitValue(lit) ==
    IF lit.hint = "int" THEN lit.val[2] ELSE lit.val[2] = "True"

RECURSIVE CEval(_, _)
\* the concrete value of x under the assignment sigma, as a set: empty when
\* the evaluation leaves the integer type, a singleton otherwise
CEval(x, sigma) ==
    CASE x.k = "ident" -> {sigma[x.name]}
      [] x.k = "lit"   -> {LitValue(x)}
      [] x.k = "un"    -> UNION {ConcUn(x.op, a) : a \in CEval(x.e, sigma)}
      [] x.k = "bin"   -> UNION {ConcBin(x.op, a, b) :
                                    a \in CEval(x.lhs, sigma), b \in CEval(x.rhs, sigma)}

\* the concrete assignments an environment stands for
Concretization(e) ==
    {[n \in Vars |-> IF n = "x" THEN a ELSE IF n = "y" THEN c ELSE d] :
        a \in e["x"], c \in e["y"], d \in e["b"]}

\* the assignments of e that make the predicate x true
Solutions(x, e) == {sigma \in Concretization(e) : TRUE \in CEval(x, sigma)}

Contains(e, sigma) == \A n \in Vars : sigma[n] \in e[n]

Infeasible(r) == DOMAIN r = {}

RECURSIVE RefEval(_, _)
\* the structural-recursion reference of evaluation
RefEval(x, e) ==
    CASE x.k = "ident" -> e[x.name]
      [] x.k = "lit"   -> Builder(x.hint, x.val)
      [] x.k = "un"    -> DefUn(x.op, <<x.e.hint, x.hint>>, RefEval(x.e, e))
      [] x.k = "bin"   -> DefBin(x.op, <<x.lhs.hint, x.rhs.hint, x.hint>>,
                                 RefEval(x.lhs, e), RefEval(x.rhs, e))

(***************************************************************************)
(* Claims about ExprSolver and ExprEvaluator.                              *)
(***************************************************************************)

\* C1: solving toward an identifier replaces its value by
\* meet(current, expected) and reports infeasible whenever that meet is
\* empty; solve() on a bare identifier whose value excludes true yields the
\* infeasible outcome, not a narrowed environment.
C1_IdentInfeasibleWhenMeetEmpty ==
    /\ (pc = "visited" /\ expr.k = "ident") =>
          LET m == Meet(expr.hint, env[expr.name], expected)
          IN  /\ env_after = [env EXCEPT ![expr.name] = m]
              /\ (IsEmpty(expr.hint, m) => ~ok)
    /\ (pc = "solved" /\ expr.k = "ident" /\ TRUE \notin env[expr.name]) =>
          Infeasible(result)

\* C2: every concrete assignment of the input environment that makes the
\* predicate true is contained in the environment solve returns.
C2_SolveKeepsSolutions ==
    pc = "solved" =>
        \A sigma \in Solutions(expr, env) :
            /\ ~Infeasible(result)
            /\ Contains(result, sigma)

C2_Witness ==
    /\ pc = "solved"
    /\ expr.k = "bin"
    /\ Solutions(expr, env) # {}
    /\ ~Infeasible(result)
    /\ result # env
    /\ \E sigma \in Concretization(result) : TRUE \notin CEval(expr, sigma)

\* C3: whenever solve reports infeasible (returns the empty environment),
\* no concrete assignment contained in the input environment makes the
\* predicate true.
C3_InfeasibleHasNoSolution ==
    (pc = "solved" /\ Infeasible(result)) => Solutions(expr, env) = {}

C3_Witness ==
    /\ pc = "solved"
    /\ Infeasible(result)
    /\ expr.k = "bin"
    /\ Concretization(env) # {}

\* C4: for a unary or binary node the solver forward-evaluates every
\* operand in the environment as it is on entry, hands the expected value
\* and those operand values to the inverse, reports infeasible when the
\* inverse has no solution, and otherwise recurses into each operand with
\* its derived expected value, reporting infeasible if the recursion into
\* any operand reports infeasible.
C4_UnBinSolveSteps ==
    /\ (pc = "visited" /\ expr.k = "bin") =>
          LET inv == InvBin(expr.op, <<expr.lhs.hint, expr.rhs.hint, expr.hint>>,
                            expected, RefEval(expr.lhs, env), RefEval(expr.rhs, env))
          IN  IF ~inv.some THEN ~ok /\ env_after = env
              ELSE LET l == SolverVisit(expr.lhs, env, inv.lhs)
                       r == SolverVisit(expr.rhs, l.env, inv.rhs)
                   IN  /\ ok = (l.ok /\ r.ok)
                       /\ ok => env_after = r.env
    /\ (pc = "visited" /\ expr.k = "un") =>
          LET inv == InvUn(expr.op, <<expr.e.hint, expr.hint>>,
                           expected, RefEval(expr.e, env))
          IN  IF ~inv.some THEN ~ok /\ env_after = env
              ELSE LET r == SolverVisit(expr.e, env, inv.e)
                   IN  ok = r.ok /\ env_after = r.env

\* the right operand's recursion fails after the left operand narrowed
C4_Witness ==
    /\ pc = "visited"
    /\ expr.k = "bin"
    /\ ~ok
    /\ LET inv == InvBin(expr.op, <<expr.lhs.hint, expr.rhs.hint, expr.hint>>,
                         expected, RefEval(expr.lhs, env), RefEval(expr.rhs, env))
       IN  /\ inv.some
           /\ SolverVisit(expr.lhs, env, inv.lhs).ok
           /\ SolverVisit(expr.lhs, env, inv.lhs).env # env

\* C5: solving toward a literal is feasible iff the meet of the expected
\* value with the literal's built value is non-empty, and it never changes
\* the environment.
C5_LitFeasibleIffMeets ==
    (pc = "visited" /\ expr.k = "lit") =>
        /\ ok = (Meet(expr.hint, expected, Builder(expr.hint, expr.val)) # {})
        /\ env_after = env

C5_Witness ==
    /\ pc = "visited"
    /\ expr.k = "lit"
    /\ expected # {}
    /\ ~ok

\* C6: eval equals the structural-recursion reference: env[identifier],
\* builder(literal value), definition(eval(operand)),
\* definition(eval(lhs), eval(rhs)).
C6_EvalIsStructural ==
    pc = "evaluated" => value = RefEval(expr, env)

C6_Witness ==
    /\ pc = "evaluated"
    /\ expr.k = "bin"
    /\ expr.op = "<"
    /\ expr.lhs.k = "bin"
    /\ value = {TRUE}

\* C7: eval leaves the environment unchanged: same keys, same values.
C7_EvalKeepsEnv ==
    pc = "evaluated" =>
        /\ DOMAIN env_after = DOMAIN env
        /\ \A n \in DOMAIN env : env_after[n] = env[n]

C7_Witness ==
    /\ pc = "evaluated"
    /\ expr.k = "un"
    /\ Idents(expr) # {}
    /\ value # {}

Spec == Init /\ [][Next]_vars

(***************************************************************************)
(* The behaviours of the CFG builder: a Basic IR program is chosen and     *)
(* the builder visits it.                                                  *)
(***************************************************************************)
InitCFG ==
    /\ \/ pc = "ir" /\ prgm \in Programs /\ subp = <<>>
       \/ pc = "ada" /\ prgm = <<>> /\ subp \in {<<sp>> : sp \in Subps}
    /\ cfg = NoCfg
    /\ expr = Lit(PyInt(0), "int")
    /\ env = NoEnv
    /\ expected = {}
    /\ env_after = NoEnv
    /\ ok = TRUE
    /\ result = NoEnv
    /\ value = {}
    /\ models = NoModels
    /\ analysis = NoAnalysis
    /\ constexpr = NoConstExpr
    /\ record = NoRecord

\* CFGBuilder().visit_program(prgm)
BuildCFG ==
    /\ pc = "ir"
    /\ LET r == visit_program(prgm)
       IN  IF r.raised THEN cfg' = cfg /\ pc' = "failed"
           ELSE cfg' = r.graph /\ pc' = "built"
    /\ UNCHANGED <<subp, prgm>>
    /\ UNCHANGED exprVars
    /\ UNCHANGED auxVars

\* _gen_ir(subp)
GenIR ==
    /\ pc = "ada"
    /\ prgm' = gen_ir(subp[1])
    /\ pc' = "ir"
    /\ UNCHANGED <<subp, cfg>>
    /\ UNCHANGED exprVars
    /\ UNCHANGED auxVars

NextCFG == GenIR \/ BuildCFG

SpecCFG == InitCFG /\ [][NextCFG]_vars

\* the builder alone, on programs that may hold unknown statements
InitBuilder ==
    /\ pc = "ir"
    /\ prgm \in BuilderPrograms
    /\ subp = <<>>
    /\ cfg = NoCfg
    /\ expr = Lit(PyInt(0), "int")
    /\ env = NoEnv
    /\ expected = {}
    /\ env_after = NoEnv
    /\ ok = TRUE
    /\ result = NoEnv
    /\ value = {}
    /\ models = NoModels
    /\ analysis = NoAnalysis
    /\ constexpr = NoConstExpr
    /\ record = NoRecord

NextBuilder == BuildCFG

SpecBuilder == InitBuilder /\ [][NextBuilder]_vars

(***************************************************************************)
(* Claims about the CFG builder and the lowering of conditionals.          *)
(***************************************************************************)
Range(seq) == {seq[i] : i \in 1..Len(seq)}

\* the edges of `edges` that enter node n, in order
InEdges(edges, n) ==
    LET Enters(e) == e[2] = n
    IN  SelectSeq(edges, Enters)

\* the number of times n occurs in the node list
Occurrences(nodes, n) == Cardinality({i \in 1..Len(nodes) : nodes[i] = n})

\* the edges a visit added to the builder: those of `after` beyond `before`
NewEdges(before, after) ==
    SubSeq(after.edges, Len(before.edges) + 1, Len(after.edges))

RECURSIVE SitesOf(_, _, _)
\* the visits visit_stmts(st, stmts, cur) makes, nested ones included: each
\* visited statement with the builder and the node it is visited from
SitesOf(st, stmts, cur) ==
    IF stmts = <<>> THEN {}
    ELSE LET s == Head(stmts)
             r == visit_stmt(st, s, cur)
             inner ==
                 CASE s.k = "split" ->
                        LET f == visit_stmts(st, s.fst_stmts, cur)
                        IN  SitesOf(st, s.fst_stmts, cur)
                            \cup SitesOf(f.st, s.snd_stmts, cur)
                   [] s.k = "loop" ->
                        LET ls == build_node(st, "loop_start", TRUE, NoStmt)
                        IN  SitesOf(ls.st, s.stmts, ls.node)
                   [] OTHER -> {}
         IN  Then(r.cur, {[stmt |-> s, st |-> st, start |-> cur]}
                         \cup inner \cup SitesOf(r.st, Tail(stmts), r.cur))

\* the visits made by visit_program(prgm)
ProgramSites == SitesOf(StartOf(NewBuilder).st, prgm, StartOf(NewBuilder).node)

SplitSites == {site \in ProgramSites : site.stmt.k = "split"}

LoopSites == {site \in ProgramSites : site.stmt.k = "loop"}

\* C8: for every split statement both branches are lowered starting from
\* the same predecessor node, and exactly one fresh join node is added, whose
\* incoming edges are exactly two, from the last node of the first branch and
\* from the last node of the second branch (the predecessor itself when a
\* branch is empty); the join is no widening point and carries no statement.
C8_SplitJoin ==
    pc = "built" =>
        \A site \in SplitSites :
            LET end_fst == visit_stmts(site.st, site.stmt.fst_stmts, site.start)
                end_snd == visit_stmts(end_fst.st, site.stmt.snd_stmts, site.start)
                r       == visit_split(site.st, site.stmt, site.start)
                join    == r.cur
            IN  /\ r.st.nodes = Append(end_snd.st.nodes, join)
                /\ join \notin Range(end_snd.st.nodes) \cup {site.start}
                /\ Occurrences(cfg.nodes, join) = 1
                /\ join.name[1] = "split_join"
                /\ ~join.is_widening_point
                /\ join.node = NoStmt
                /\ InEdges(cfg.edges, join)
                      = <<<<end_fst.cur, join>>, <<end_snd.cur, join>>>>
                /\ site.stmt.fst_stmts = <<>> => end_fst.cur = site.start
                /\ site.stmt.snd_stmts = <<>> => end_snd.cur = site.start
                /\ site.stmt.fst_stmts # <<>> =>
                      \E e \in Range(NewEdges(site.st, end_fst.st)) :
                          e[1] = site.start /\ e \in Range(cfg.edges)
                /\ site.stmt.snd_stmts # <<>> =>
                      \E e \in Range(NewEdges(end_fst.st, end_snd.st)) :
                          e[1] = site.start /\ e \in Range(cfg.edges)

\* a split nested in a loop, with two non-empty branches
C8_Witness ==
    /\ pc = "built"
    /\ \E site \in SplitSites :
          /\ site.start.name[1] = "loop_start"
          /\ site.stmt.fst_stmts # <<>>
          /\ site.stmt.snd_stmts # <<>>

\* C9: every conditional lowered into the IR (if statement or if
\* expression) becomes a split whose first branch starts with assume(cond)
\* and whose second branch starts with assume(not cond), for the same cond;
\* in the CFG the first node of each branch of such a split is an assume node.
C9_BranchesStartWithAssume ==
    (subp # <<>> /\ pc \in {"ir", "built"}) =>
        \A site \in SplitSites :
            LET fst == site.stmt.fst_stmts
                snd == site.stmt.snd_stmts
            IN  /\ fst # <<>> /\ snd # <<>>
                /\ fst[1].k = "assume"
                /\ snd[1] = AssumeStmt(UnExpr("!", fst[1].expr, fst[1].expr.hint))
                /\ pc = "built" =>
                      LET end_fst == visit_stmts(site.st, fst, site.start)
                          n_fst   == visit_stmts(site.st, <<fst[1]>>, site.start).cur
                          n_snd   == visit_stmts(end_fst.st, <<snd[1]>>, site.start).cur
                      IN  /\ n_fst.name[1] = "assume" /\ n_fst.node = fst[1]
                          /\ n_snd.name[1] = "assume" /\ n_snd.node = snd[1]
                          /\ InEdges(cfg.edges, n_fst) = <<<<site.start, n_fst>>>>
                          /\ InEdges(cfg.edges, n_snd) = <<<<site.start, n_snd>>>>

\* an if statement whose condition is an if expression: a split on the
\* statement's condition nested in a branch of the expression's split
C9_Witness ==
    /\ pc = "built"
    /\ subp # <<>>
    /\ \E site \in SplitSites :
          /\ site.start.name[1] = "assume"
          /\ site.stmt.fst_stmts[1].expr.k = "bin"

\* C10: for every loop statement one loop-entry node marked as widening
\* point is created, whose incoming edges are exactly the edge from the node
\* preceding the loop and the back-edge from the last node of the body (the
\* entry itself when the body is empty); the body is lowered starting at the
\* entry; one loop-exit join node is created whose only incoming edge comes
\* from the entry.
C10_LoopEntryAndExit ==
    pc = "built" =>
        \A site \in LoopSites :
            LET entry == build_node(site.st, "loop_start", TRUE, NoStmt)
                end   == visit_stmts(entry.st, site.stmt.stmts, entry.node)
                r     == visit_loop(site.st, site.stmt, site.start)
                join  == r.cur
            IN  /\ entry.node.is_widening_point
                /\ entry.node \notin Range(site.st.nodes)
                /\ Occurrences(cfg.nodes, entry.node) = 1
                /\ InEdges(cfg.edges, entry.node)
                      = <<<<site.start, entry.node>>, <<end.cur, entry.node>>>>
                /\ site.stmt.stmts = <<>> => end.cur = entry.node
                /\ site.stmt.stmts # <<>> =>
                      \E e \in Range(NewEdges(entry.st, end.st)) :
                          e[1] = entry.node /\ e \in Range(cfg.edges)
                /\ join.name[1] = "loop_join"
                /\ ~join.is_widening_point
                /\ join.node = NoStmt
                /\ Occurrences(cfg.nodes, join) = 1
                /\ InEdges(cfg.edges, join) = <<<<entry.node, join>>>>

\* a loop nested in a branch of a split, with a non-empty body
C10_Witness ==
    /\ pc = "built"
    /\ \E site \in LoopSites :
          /\ site.stmt.stmts # <<>>
          /\ site.start.name[1] # "start"
          /\ site.st.key_counter["assume"] > 0

RECURSIVE CountKind(_, _)
\* the number of statements of kind k in a statement list, nested ones included
CountKind(stmts, k) ==
    IF stmts = <<>> THEN 0
    ELSE LET s == Head(stmts)
         IN  (IF s.k = k THEN 1 ELSE 0)
             + (CASE s.k = "split" -> CountKind(s.fst_stmts, k) + CountKind(s.snd_stmts, k)
                  [] s.k = "loop"  -> CountKind(s.stmts, k)
                  [] OTHER         -> 0)
             + CountKind(Tail(stmts), k)

\* the names given to the loop-entry nodes of the program's loop statements
LoopEntryNames == {fresh(site.st, "loop_start").name : site \in LoopSites}

\* C11: in every CFG the builder produces, a node is marked as widening
\* point if and only if it is the loop-entry node of some loop statement
\* (one per loop statement); start, assign, read, use, assume, split-join
\* and loop-exit nodes are never widening points.
C11_WideningIffLoopEntry ==
    pc = "built" =>
        /\ \A n \in Range(cfg.nodes) : n.is_widening_point <=> n.name \in LoopEntryNames
        /\ \A name \in LoopEntryNames : \E n \in Range(cfg.nodes) : n.name = name
        /\ Cardinality({i \in 1..Len(cfg.nodes) : cfg.nodes[i].is_widening_point})
              = CountKind(prgm, "loop")
        /\ \A n \in Range(cfg.nodes) : n.is_widening_point <=> n.name[1] = "loop_start"

\* a loop nested in a loop, next to nodes of other kinds
C11_Witness ==
    /\ pc = "built"
    /\ Cardinality({n \in Range(cfg.nodes) : n.is_widening_point}) >= 2
    /\ \E n \in Range(cfg.nodes) : n.name[1] = "loop_join" /\ ~n.is_widening_point
    /\ \E n \in Range(cfg.nodes) : n.name[1] = "assume" /\ ~n.is_widening_point

RECURSIVE Reach(_, _)
\* the nodes reachable along the edges from the nodes of `from`
Reach(edges, from) ==
    LET next == from \cup {e[2] : e \in {d \in Range(edges) : d[1] \in from}}
    IN  IF next = from THEN from ELSE Reach(edges, next)

\* the nodes of the graph that no edge enters
EntryNodes(g) == {n \in Range(g.nodes) : InEdges(g.edges, n) = <<>>}

\* C12: every CFG visit_program produces has exactly one entry node, the
\* start node, which is the only node without incoming edges; every node is
\* reachable from it along edges; every node appears exactly once in the
\* node list; the endpoints of every edge are nodes of the graph.
C12_GraphWellFormed ==
    pc = "built" =>
        /\ EntryNodes(cfg) = {StartOf(NewBuilder).node}
        /\ Reach(cfg.edges, {StartOf(NewBuilder).node}) = Range(cfg.nodes)
        /\ \A n \in Range(cfg.nodes) : Occurrences(cfg.nodes, n) = 1
        /\ \A e \in Range(cfg.edges) : e[1] \in Range(cfg.nodes) /\ e[2] \in Range(cfg.nodes)

\* a graph with a loop nested in a branch of a split, after a statement
C12_Witness ==
    /\ pc = "built"
    /\ Len(prgm) = 2
    /\ prgm[2].k = "split"
    /\ \E s \in Range(prgm[2].snd_stmts) : s.k = "loop"
    /\ Len(cfg.nodes) >= 6

AtomicSites == {site \in ProgramSites : site.stmt.k \in AtomicKinds}

\* C13: each atomic statement (assign, read, use, assume) yields exactly one
\* CFG node, annotated with that statement, with exactly one incoming edge,
\* which comes from the node that ends the preceding statement of the
\* sequence (the start, branch or loop-entry node when the statement is
\* first); consecutive statements are thus chained in program order.
C13_AtomicStmtsChain ==
    pc = "built" =>
        /\ \A site \in AtomicSites :
              LET r == visit_stmt(site.st, site.stmt, site.start)
                  n == r.cur
              IN  /\ r.st.nodes = Append(site.st.nodes, n)
                  /\ n.node = site.stmt
                  /\ n.name[1] = site.stmt.k
                  /\ Occurrences(cfg.nodes, n) = 1
                  /\ InEdges(cfg.edges, n) = <<<<site.start, n>>>>
        /\ Cardinality({i \in 1..Len(cfg.nodes) : cfg.nodes[i].node # NoStmt})
              = CountKind(prgm, "assign") + CountKind(prgm, "read")
                + CountKind(prgm, "use") + CountKind(prgm, "assume")
        /\ \A i \in 1..Len(prgm) - 1 :
              (prgm[i].k \in AtomicKinds /\ prgm[i + 1].k \in AtomicKinds) =>
                  \E e \in Range(cfg.edges) :
                      e[1].node = prgm[i] /\ e[2].node = prgm[i + 1]

\* two different atomic statements in a row, and an atomic statement that
\* follows a split
C13_Witness ==
    /\ pc = "built"
    /\ \E site \in AtomicSites : site.start.name[1] = "split_join"
    /\ \E site \in AtomicSites :
          site.start.node # NoStmt /\ site.start.node.k # site.stmt.k

NoHint == "none"

\* Models._has_type_hint
Models_has_type_hint(node) == "hint" \in DOMAIN node /\ node.hint # NoHint

RECURSIVE SubNodes(_)
\* the nodes of a tree, in pre-order
SubNodes(n) ==
    <<n>> \o
    (CASE n.k = "un"     -> SubNodes(n.e)
       [] n.k = "bin"    -> SubNodes(n.lhs) \o SubNodes(n.rhs)
       [] n.k = "assign" -> SubNodes(n.id) \o SubNodes(n.expr)
       [] n.k = "read"   -> SubNodes(n.id)
       [] n.k = "use"    -> SubNodes(n.id)
       [] n.k = "assume" -> SubNodes(n.expr)
       [] OTHER          -> <<>>)

RECURSIVE ProgramNodes(_)
ProgramNodes(prog) ==
    IF prog = <<>> THEN <<>> ELSE SubNodes(Head(prog)) \o ProgramNodes(Tail(prog))

\* visitors.findall(prog, self._has_type_hint)
findall(prog) == SelectSeq(ProgramNodes(prog), Models_has_type_hint)

\* typer.from_hint: the type of a hint, a new object at each consultation
typer_from_hint(id, hint) == [name |-> hint, inst |-> id]

\* the type names the type interpreter has an interpretation for
Interpreted == {"int", "bool"}

\* the definitions a domain's provider registers, as (name, signature)
Registered(dom, name, signature) ==
    IF dom.name = "int"
    THEN \/ name = "+" /\ signature = <<dom, dom, dom>>
         \/ /\ name \in {"<", "=="}
            /\ Len(signature) = 3
            /\ signature[1] = dom /\ signature[2] = dom /\ signature[3].name = "bool"
    ELSE \/ name = "!" /\ signature = <<dom, dom>>
         \/ name = "==" /\ signature = <<dom, dom, dom>>

\* provider(name, signature): the definition, or None
Provide(provider, name, signature) ==
    IF /\ Registered(provider.dom, name, signature)
       /\ ~(provider.p = "inv_defs" /\ provider.dom.name = "int" /\ name = "==")
    THEN [some |-> TRUE, p |-> provider.p, name |-> name, signature |-> signature]
    ELSE None

\* type_interpreter.from_type: (domain, defs, inv_defs, builder), the domain
\* a new object at each consultation; an error for a type without
\* interpretation
type_interpreter_from_type(id, tpe) ==
    LET dom == [name |-> tpe.name, inst |-> id]
    IN  IF tpe.name \in Interpreted
        THEN [raised |-> FALSE,
              val    |-> [domain   |-> dom,
                          defs     |-> [p |-> "defs", dom |-> dom],
                          inv_defs |-> [p |-> "inv_defs", dom |-> dom],
                          builder  |-> [p |-> "builder", dom |-> dom]]]
        ELSE [raised |-> TRUE, val |-> None]

AllHints == Interpreted \cup {"access"}

\* Models.__init__, with the empty caches of the two memoized methods
NewModels ==
    [used         |-> TRUE,
     hint_cache   |-> <<>>,
     type_cache   |-> <<>>,
     next_id      |-> 0,
     typer_calls  |-> [h \in AllHints |-> 0],
     interp_calls |-> <<>>,
     ncalls       |-> 0,
     programs     |-> <<>>,
     raised       |-> FALSE,
     error        |-> "",
     model        |-> None,
     granted      |-> {}]

\* consults the typer at every call
Models__hint_to_type_unmemoized(mo, hint) ==
    LET t == typer_from_hint(mo.next_id, hint)
    IN  [mo  |-> [mo EXCEPT !.next_id = @ + 1, !.typer_calls[hint] = @ + 1],
         val |-> t]

\* Models._hint_to_type, memoized
Models__hint_to_type(mo, hint) ==
    IF hint \in DOMAIN mo.hint_cache
    THEN [mo |-> mo, val |-> mo.hint_cache[hint]]
    ELSE LET t == typer_from_hint(mo.next_id, hint)
         IN  [mo  |-> [mo EXCEPT !.hint_cache = (hint :> t) @@ @,
                                 !.next_id = @ + 1,
                                 !.typer_calls[hint] = @ + 1],
              val |-> t]

\* Models._type_to_interp, memoized: a result is cached, an error is not
Models__type_to_interp(mo, tpe) ==
    IF tpe \in DOMAIN mo.type_cache
    THEN [mo |-> mo, raised |-> FALSE, val |-> mo.type_cache[tpe]]
    ELSE LET r   == type_interpreter_from_type(mo.next_id, tpe)
             mo1 == [mo EXCEPT !.next_id = @ + 1, !.interp_calls = Append(@, tpe)]
         IN  IF r.raised THEN [mo |-> mo1, raised |-> TRUE, val |-> None]
             ELSE [mo     |-> [mo1 EXCEPT !.type_cache = (tpe :> r.val) @@ @],
                   raised |-> FALSE,
                   val    |-> r.val]

\* Models._typeable_to_interp
Models__typeable_to_interp(mo, node) ==
    LET t == Models__hint_to_type(mo, node.hint)
    IN  Models__type_to_interp(t.mo, t.val)

\* returns what the last provider gave, None included
aggregate_provider_unchecked(providers, name, signature) ==
    LET giving == {pr \in providers : Provide(pr, name, signature) # None}
    IN  IF giving = {} THEN [raised |-> FALSE, val |-> None]
        ELSE [raised |-> FALSE,
              val    |-> Provide(CHOOSE pr \in giving : TRUE, name, signature)]

\* Models._aggregate_provider: f(name, signature), the first definition a
\* provider gives, an error when none gives one
aggregate_provider(providers, name, signature) ==
    LET giving == {pr \in providers : Provide(pr, name, signature) # None}
    IN  IF giving = {} THEN [raised |-> TRUE, val |-> None]
        ELSE [raised |-> FALSE,
              val    |-> Provide(CHOOSE pr \in giving : TRUE, name, signature)]

\* the definition and the inverse taken from each other's providers
Models_of_visit_unexpr_swapped(unexpr, node_domains, defs, inv_defs, builders) ==
    IF unexpr.e \notin DOMAIN node_domains
    THEN [raised |-> TRUE, error |-> "KeyError", val |-> None]
    ELSE LET dom        == node_domains[unexpr]
             expr_dom   == node_domains[unexpr.e]
             tpe        == <<expr_dom, dom>>
             definition == aggregate_provider(inv_defs, unexpr.op, tpe)
             inverse    == aggregate_provider(defs, unexpr.op, tpe)
         IN  IF definition.raised \/ inverse.raised
             THEN [raised |-> TRUE, error |-> "LookupError", val |-> None]
             ELSE [raised |-> FALSE,
                   error  |-> "",
                   val    |-> [domain     |-> dom,
                               definition |-> definition.val,
                               inverse    |-> inverse.val]]

\* Models.visit_unexpr, with the arguments Models.of passes
Models_of_visit_unexpr(unexpr, node_domains, defs, inv_defs, builders) ==
    IF unexpr.e \notin DOMAIN node_domains
    THEN [raised |-> TRUE, error |-> "KeyError", val |-> None]
    ELSE LET dom        == node_domains[unexpr]
             expr_dom   == node_domains[unexpr.e]
             tpe        == <<expr_dom, dom>>
             definition == aggregate_provider(defs, unexpr.op, tpe)
             inverse    == aggregate_provider(inv_defs, unexpr.op, tpe)
         IN  IF definition.raised \/ inverse.raised
             THEN [raised |-> TRUE, error |-> "LookupError", val |-> None]
             ELSE [raised |-> FALSE,
                   error  |-> "",
                   val    |-> [domain     |-> dom,
                               definition |-> definition.val,
                               inverse    |-> inverse.val]]

\* Models.visit_binexpr, with the arguments Models.of passes
Models_of_visit_binexpr(binexpr, node_domains, defs, inv_defs, builders) ==
    IF {binexpr.lhs, binexpr.rhs} \ DOMAIN node_domains # {}
    THEN [raised |-> TRUE, error |-> "KeyError", val |-> None]
    ELSE LET dom        == node_domains[binexpr]
             lhs_dom    == node_domains[binexpr.lhs]
             rhs_dom    == node_domains[binexpr.rhs]
             tpe        == <<lhs_dom, rhs_dom, dom>>
             definition == aggregate_provider(defs, binexpr.op, tpe)
             inverse    == aggregate_provider(inv_defs, binexpr.op, tpe)
         IN  IF definition.raised \/ inverse.raised
             THEN [raised |-> TRUE, error |-> "LookupError", val |-> None]
             ELSE [raised |-> FALSE,
                   error  |-> "",
                   val    |-> [domain     |-> dom,
                               definition |-> definition.val,
                               inverse    |-> inverse.val]]

\* Models.visit_ident, with the arguments Models.of passes
Models_of_visit_ident(ident, node_domains, defs, inv_defs, builders) ==
    [raised |-> FALSE, error |-> "", val |-> [domain |-> node_domains[ident]]]

\* Models.visit_lit, with the arguments Models.of passes
Models_of_visit_lit(lit, node_domains, defs, inv_defs, builders) ==
    LET dom == node_domains[lit]
    IN  [raised |-> FALSE, error |-> "", val |-> [domain |-> dom, builder |-> builders[dom]]]

\* node.visit(self, node_domains, defs, inv_defs, builders)
Models_of_visit(node, node_domains, defs, inv_defs, builders) ==
    CASE node.k = "un"    -> Models_of_visit_unexpr(node, node_domains, defs, inv_defs, builders)
      [] node.k = "bin"   -> Models_of_visit_binexpr(node, node_domains, defs, inv_defs, builders)
      [] node.k = "ident" -> Models_of_visit_ident(node, node_domains, defs, inv_defs, builders)
      [] node.k = "lit"   -> Models_of_visit_lit(node, node_domains, defs, inv_defs, builders)

\* the dictionaries and sets Models.of starts with
NoTables == [node_domains |-> <<>>, def_providers |-> {},
             inv_def_providers |-> {}, builders |-> <<>>]

RECURSIVE Models_of_collect(_, _, _)
\* Models.of, first loop: the typeable nodes in turn
Models_of_collect(mo, typeable, tables) ==
    IF typeable = <<>> THEN [mo |-> mo, raised |-> FALSE, tables |-> tables]
    ELSE LET node   == Head(typeable)
             interp == Models__typeable_to_interp(mo, node)
         IN  IF interp.raised
             THEN [mo |-> interp.mo, raised |-> TRUE, tables |-> tables]
             ELSE Models_of_collect(
                      interp.mo, Tail(typeable),
                      [node_domains      |-> (node :> interp.val.domain) @@ tables.node_domains,
                       def_providers     |-> tables.def_providers \cup {interp.val.defs},
                       inv_def_providers |-> tables.inv_def_providers \cup {interp.val.inv_defs},
                       builders          |-> (interp.val.domain :> interp.val.builder)
                                                @@ tables.builders])

RECURSIVE AllTypeable(_)
\* the typeable nodes of the programs, program after program
AllTypeable(programs) ==
    IF programs = <<>> THEN <<>>
    ELSE findall(Head(programs)) \o AllTypeable(Tail(programs))

\* Models.of(*programs): the Models object as the call leaves it, and the
\* model returned or the error raised (that of the first failing node in
\* the dictionary's order, hence one of `errors`)
Models_of(mo, programs) ==
    LET c       == Models_of_collect(mo, AllTypeable(programs), NoTables)
        t       == c.tables
        Entry(node) == Models_of_visit(node, t.node_domains, t.def_providers,
                                       t.inv_def_providers, t.builders)
        failing == {node \in DOMAIN t.node_domains : Entry(node).raised}
    IN  IF c.raised
        THEN [mo |-> c.mo, raised |-> TRUE, errors |-> {"LookupError"}, model |-> None]
        ELSE IF failing # {}
        THEN [mo |-> c.mo, raised |-> TRUE,
              errors |-> {Entry(node).error : node \in failing}, model |-> None]
        ELSE [mo     |-> c.mo,
              raised |-> FALSE,
              errors |-> {""},
              model  |-> [node \in DOMAIN t.node_domains |-> Entry(node).val]]

\* the programs handed to Models.of
ProgLess == <<AssumeStmt(BinExpr(Identifier("x", "int"), "<", Lit(PyInt(1), "int"), "bool"))>>

ProgPlusNot ==
    <<AssignStmt(Identifier("x", "int"),
                 BinExpr(Identifier("x", "int"), "+", Identifier("y", "int"), "int")),
      AssumeStmt(UnExpr("!", Identifier("b", "bool"), "bool"))>>

\* a node whose type has no interpretation
ProgAccess == <<ReadStmt(Identifier("p", "access"))>>

\* an operator no provider defines for the signature of its operands
ProgBoolPlus ==
    <<AssumeStmt(BinExpr(Identifier("b", "bool"), "+", Identifier("b", "bool"), "bool"))>>

\* an operator with a definition and without inverse
ProgIntEq ==
    <<AssumeStmt(BinExpr(Identifier("x", "int"), "==", Identifier("y", "int"), "bool"))>>

\* a node without type hint
ProgUntyped == <<UseStmt(Identifier("u", NoHint))>>

\* a typed node over an operand without type hint
ProgNotUntyped == <<AssumeStmt(UnExpr("!", Identifier("u", NoHint), "bool"))>>

ProgLit == <<AssignStmt(Identifier("b", "bool"), Lit(PyStr("True"), "bool"))>>

\* the argument lists of the calls
ModelInputs ==
    {<<>>, <<ProgLess>>, <<ProgPlusNot>>, <<ProgAccess>>, <<ProgBoolPlus>>, <<ProgIntEq>>,
     <<ProgUntyped>>, <<ProgNotUntyped>>, <<ProgLit>>,
     <<ProgLess, ProgPlusNot>>, <<ProgPlusNot, ProgAccess>>, <<ProgUntyped, ProgLit>>,
     <<ProgLess, ProgUntyped, ProgPlusNot>>}

InitModels ==
    /\ pc = "models"
    /\ models = NewModels
    /\ analysis = NoAnalysis
    /\ constexpr = NoConstExpr
    /\ record = NoRecord
    /\ expr = Lit(PyInt(0), "int")
    /\ env = NoEnv
    /\ expected = {}
    /\ env_after = NoEnv
    /\ ok = TRUE
    /\ result = NoEnv
    /\ value = {}
    /\ subp = <<>>
    /\ prgm = <<>>
    /\ cfg = NoCfg

\* models.of(*programs)
Of ==
    /\ pc = "models"
    /\ models.ncalls < MaxOfCalls
    /\ \E programs \in ModelInputs :
          LET r == Models_of(models, programs)
          IN  \E error \in r.errors :
              models' = [r.mo EXCEPT
                            !.ncalls   = @ + 1,
                            !.programs = programs,
                            !.raised   = r.raised,
                            !.error    = error,
                            !.model    = r.model,
                            !.granted  = @ \cup
                                (IF r.raised THEN {}
                                 ELSE {<<n.hint, r.model[n].domain>> : n \in DOMAIN r.model})]
    /\ UNCHANGED <<pc, analysis, constexpr, record>>
    /\ UNCHANGED exprVars
    /\ UNCHANGED cfgVars

NextModels == Of

SpecModels == InitModels /\ [][NextModels]_vars

(***************************************************************************)
(* Claims about Models.of.                                                 *)
(***************************************************************************)
\* the number of consultations of the type interpreter for type t
InterpCalls(t) ==
    Cardinality({i \in 1..Len(models.interp_calls) : models.interp_calls[i] = t})

\* nodes with equal hints were always given the identical domain, over all
\* the models returned so far, and the typer was consulted at most once per hint
SharedDomains ==
    /\ \A p \in models.granted : \A q \in models.granted : p[1] = q[1] => p[2] = q[2]
    /\ \A h \in AllHints : models.typer_calls[h] <= 1
    /\ \A h \in DOMAIN models.hint_cache :
          LET t == models.hint_cache[h]
          IN  t \in DOMAIN models.type_cache =>
                  \A p \in models.granted : p[1] = h => p[2] = models.type_cache[t].domain

RECURSIVE CallNodes(_)
\* the nodes of all the programs of a call, typed or not
CallNodes(programs) ==
    IF programs = <<>> THEN {}
    ELSE Range(ProgramNodes(Head(programs))) \cup CallNodes(Tail(programs))

\* the domain the caches give for a hint
DomainOfHint(h) == models.type_cache[models.hint_cache[h]].domain

\* the definition provider kind p gives for a symbol and a signature
Looked(p, sym, signature) ==
    [some |-> TRUE, p |-> p, name |-> sym, signature |-> signature]

\* C16: the model Models.of returns has an entry for exactly the nodes of the
\* given programs that carry a type hint; the entry of a unary or binary
\* node holds (domain, definition, inverse), definition and inverse looked up
\* by operator symbol and the signature made of the operand domains and the
\* result domain; an identifier's entry holds only its domain; a literal's
\* entry holds its domain and the builder registered for that domain.
C16_ModelEntries ==
    (pc = "models" /\ models.ncalls > 0 /\ ~models.raised) =>
        LET model == models.model
        IN  /\ DOMAIN model = {n \in CallNodes(models.programs) : Models_has_type_hint(n)}
            /\ \A n \in DOMAIN model :
                  /\ model[n].domain = DomainOfHint(n.hint)
                  /\ model[n].domain.name = n.hint
                  /\ n.k = "ident" => DOMAIN model[n] = {"domain"}
                  /\ n.k = "lit" =>
                        /\ DOMAIN model[n] = {"domain", "builder"}
                        /\ model[n].builder = [p |-> "builder", dom |-> model[n].domain]
                  /\ n.k = "un" =>
                        LET sig == <<model[n.e].domain, model[n].domain>>
                        IN  /\ DOMAIN model[n] = {"domain", "definition", "inverse"}
                            /\ model[n].definition = Looked("defs", n.op, sig)
                            /\ model[n].inverse = Looked("inv_defs", n.op, sig)
                  /\ n.k = "bin" =>
                        LET sig == <<model[n.lhs].domain, model[n.rhs].domain, model[n].domain>>
                        IN  /\ DOMAIN model[n] = {"domain", "definition", "inverse"}
                            /\ model[n].definition = Looked("defs", n.op, sig)
                            /\ model[n].inverse = Looked("inv_defs", n.op, sig)

\* a model of programs with unary, binary, identifier and literal nodes and
\* a node without type hint
C16_Witness ==
    /\ pc = "models"
    /\ models.ncalls = 2
    /\ ~models.raised
    /\ \A k \in {"un", "bin", "ident", "lit"} : \E n \in DOMAIN models.model : n.k = k
    /\ \E n \in CallNodes(models.programs) : "hint" \in DOMAIN n /\ n.hint = NoHint

\* the typed nodes of the programs of the last call
TypedNodes == {n \in CallNodes(models.programs) : Models_has_type_hint(n)}

\* the providers of kind p of the domains of the last call's typed nodes
ProvidersOfCall(p) == {[p |-> p, dom |-> DomainOfHint(n.hint)] : n \in TypedNodes}

\* the signature of a unary or binary node whose operands are typed
SignatureOf(n) ==
    IF n.k = "un" THEN <<DomainOfHint(n.e.hint), DomainOfHint(n.hint)>>
    ELSE <<DomainOfHint(n.lhs.hint), DomainOfHint(n.rhs.hint), DomainOfHint(n.hint)>>

Operands(n) == IF n.k = "un" THEN {n.e} ELSE {n.lhs, n.rhs}

\* a typed unary or binary node for which no provider of the call gives a
\* definition, or none gives an inverse
Unprovided(n) ==
    /\ n.k \in {"un", "bin"}
    /\ Operands(n) \subseteq TypedNodes
    /\ \E p \in {"defs", "inv_defs"} :
          \A pr \in ProvidersOfCall(p) : Provide(pr, n.op, SignatureOf(n)) = None

ClassesOf(kind) == {kind, "Purpose"}

\* isinstance(purpose, cls)
isinstance(purpose, cls) == cls \in ClassesOf(purpose.kind)

\* tests the exact class of the purpose
is_purpose_of_exact_class(cls, node) ==
    IF "purpose" \in DOMAIN node THEN node.purpose.kind = cls ELSE FALSE

\* Purpose.is_purpose_of
is_purpose_of(cls, node) ==
    IF "purpose" \in DOMAIN node THEN isinstance(node.purpose, cls) ELSE FALSE

\* DerefCheck.__init__
DerefCheck(derefed_expr) == [kind |-> "DerefCheck", expr |-> derefed_expr]

ExistCheck(accessed_expr) == [kind |-> "ExistCheck", accessed_expr |-> accessed_expr]

\* SyntheticVariable()
SyntheticVariable == [kind |-> "SyntheticVariable"]

\* an assume statement whose data holds a purpose
AssumeFor(e, purpose) == [k |-> "assume", expr |-> e, purpose |-> purpose]

\* Digraph.ancestors: the names of the nodes with an edge to the node
ancestors(g, name) ==
    {e[1].name : e \in {d \in Range(g.edges) : d[2].name = name}}

RECURSIVE SeqOf(_)
\* the elements of a set, in the order an iteration meets them
SeqOf(S) ==
    IF S = {} THEN <<>>
    ELSE LET x == CHOOSE y \in S : TRUE
         IN  <<x>> \o SeqOf(S \ {x})

\* analysis.eval_at: for each trace stored at the node, the value of the
\* expression in the environment stored under it, with the environment
\* object as the evaluation leaves it
eval_at(semantics, name, e) ==
    [trace \in DOMAIN semantics[name] |-> Evaluator_eval(e, semantics[name][trace])]

\* the store once the environments stored at a node went through eval_at
after_eval_at(semantics, name, r) ==
    [semantics EXCEPT ![name] = [trace \in DOMAIN r |-> r[trace].env]]

\* the traces are yielded as they were stored
yield_pairs_unextended(r, name) ==
    LET traces == SeqOf(DOMAIN r)
    IN  [i \in 1..Len(traces) |-> <<traces[i], r[traces[i]].val>>]

\* the pairs one ancestor contributes to the query at a node: one for each
\* trace stored at the ancestor, the trace extended with the node
yield_pairs(r, name) ==
    LET traces == SeqOf(DOMAIN r)
    IN  [i \in 1..Len(traces) |-> <<traces[i] \cup {name}, r[traces[i]].val>>]

RECURSIVE eval_expr_at_from(_, _, _, _, _)

\* the step of the query at one ancestor, whose eval_at gave r
eval_expr_at_step(semantics, name, e, ancs, pairs, r) ==
    eval_expr_at_from(after_eval_at(semantics, Head(ancs), r), name, e,
                      Tail(ancs), pairs \o yield_pairs(r, name))

\* the query over the ancestors in ancs, in order, after the pairs yielded
\* so far
eval_expr_at_from(semantics, name, e, ancs, pairs) ==
    IF ancs = <<>> THEN [pairs |-> pairs, semantics |-> semantics]
    ELSE eval_expr_at_step(semantics, name, e, ancs, pairs,
                           eval_at(semantics, Head(ancs), e))

\* the query: the (trace, value) pairs of expression e at a node
eval_expr_at(an, name, e) ==
    eval_expr_at_from(an.semantics, name, e, SeqOf(ancestors(an.cfg, name)), <<>>)

\* the assume nodes of the CFG whose statement has a purpose of kind cls,
\* each with its expression and its purpose
collect_assumes_with_purpose(g, cls) ==
    LET Tagged(n) == /\ n.node # NoStmt
                     /\ n.node.k = "assume"
                     /\ is_purpose_of(cls, n.node)
        nodes == SelectSeq(g.nodes, Tagged)
    IN  [i \in 1..Len(nodes) |->
            <<nodes[i].name, nodes[i].node.expr, nodes[i].node.purpose>>]

\* the pairs of a check, each with the purpose of the check
with_purpose(pairs, purpose) ==
    [i \in 1..Len(pairs) |-> <<pairs[i][1], purpose, pairs[i][2]>>]

RECURSIVE check_values(_, _, _)

\* the step of the checks at one check, whose query gave q
check_values_step(an, checks, values, q) ==
    check_values([an EXCEPT !.semantics = q.semantics], Tail(checks),
                 values \o with_purpose(q.pairs, Head(checks)[3]))

\* the (trace, purpose, value) triples of the checks, in order, after the
\* triples got so far, and the analysis result the queries leave
check_values(an, checks, values) ==
    IF checks = <<>> THEN [values |-> values, analysis |-> an]
    ELSE check_values_step(an, checks, values,
                           eval_expr_at(an, Head(checks)[1], Head(checks)[2]))

\* what a finding names: the purpose of the check, or the expression the
\* purpose holds
Named(purpose, what) == IF what = "expr" THEN purpose.expr ELSE purpose

\* keeps the triples whose value may be true
keep_may_be_true(values, what) ==
    LET MayBeTrue(t) == TRUE \in t[3]
        kept == SelectSeq(values, MayBeTrue)
    IN  [i \in 1..Len(kept) |->
            <<kept[i][1], Named(kept[i][2], what), Cardinality(kept[i][3]) = 1>>]

\* the findings: the triples whose value contains false, each with what it
\* names and whether its value has exactly one element
keep_may_be_false(values, what) ==
    LET MayBeFalse(t) == FALSE \in t[3]
        kept == SelectSeq(values, MayBeFalse)
    IN  [i \in 1..Len(kept) |->
            <<kept[i][1], Named(kept[i][2], what), Cardinality(kept[i][3]) = 1>>]

\* what a checker returns for the triples r of its checks: the findings
\* named by `what`, with the triples and the analysis result
Results(r, what) ==
    [values   |-> r.values,
     findings |-> keep_may_be_false(r.values, what),
     analysis |-> r.analysis]

\* check_variants of src/checkers, past collect_semantics
check_variants(an) ==
    Results(check_values(an, collect_assumes_with_purpose(an.cfg, "ExistCheck"), <<>>),
            "purpose")

\* find_null_derefs
find_null_derefs(an) ==
    Results(check_values(an, collect_assumes_with_purpose(an.cfg, "DerefCheck"), <<>>),
            "expr")

\* find_invalid_accesses
find_invalid_accesses(an) ==
    Results(check_values(an, collect_assumes_with_purpose(an.cfg, "ExistCheck"), <<>>),
            "purpose")

(***************************************************************************)
(* Behaviours of the checkers: an analysis result of a graph               *)
(*     start -> first -> check,  start -> second [-> check]                *)
(* is given, and the checkers run on it in any order, any number of times. *)
(***************************************************************************)
StartNode == [name |-> <<"start", 0>>, is_widening_point |-> FALSE, node |-> NoStmt]

NodeFirst == [name |-> <<"read", 0>>, is_widening_point |-> FALSE,
              node |-> ReadStmt(Identifier("b", "bool"))]

NodeSecond == [name |-> <<"read", 1>>, is_widening_point |-> FALSE,
               node |-> ReadStmt(Identifier("b", "bool"))]

CheckName == <<"assume", 0>>

CheckNode(stmt) == [name |-> CheckName, is_widening_point |-> FALSE, node |-> stmt]

\* the checked conditions
CheckExprs == {Identifier("b", "bool"),
               UnExpr("!", Identifier("b", "bool"), "bool")}

\* the statements at the check node: an assume with or without a purpose
CheckStmts ==
    UNION {{AssumeFor(e, ExistCheck(Identifier("x", "int"))),
            AssumeFor(e, DerefCheck(Identifier("y", "int"))),
            AssumeStmt(e)} : e \in CheckExprs}

\* the traces of the stored environments: sets of loop entries
Traces == {{<<"loop_start", j>> : j \in 0..(i - 1)} : i \in 0..(MaxTraces - 1)}

\* the environments stored: b definitely true, definitely false, or either
StoredEnvs == {[n \in Vars |-> IF n = "b" THEN vb ELSE Top(VarHint(n))] :
                  vb \in {{TRUE}, {FALSE}, BOOLEAN}}

\* what may be stored at a node: environments under some of the traces
Stores == UNION {[ts -> StoredEnvs] : ts \in SUBSET Traces}

\* what is stored at the start and at the check node itself
TopStore == [t \in {{}} |-> [n \in Vars |-> Top(VarHint(n))]]

NoRun == [op |-> "none", values |-> <<>>, findings |-> <<>>]

InitAnalysis ==
    /\ pc = "analysis"
    /\ \E stmt \in CheckStmts, second_linked \in BOOLEAN,
          s1 \in Stores, s2 \in Stores :
          analysis =
              [used |-> TRUE,
               cfg  |-> [nodes |-> <<StartNode, NodeFirst, NodeSecond, CheckNode(stmt)>>,
                         edges |-> <<<<StartNode, NodeFirst>>,
                                     <<StartNode, NodeSecond>>,
                                     <<NodeFirst, CheckNode(stmt)>>>>
                                   \o (IF second_linked
                                       THEN <<<<NodeSecond, CheckNode(stmt)>>>>
                                       ELSE <<>>)],
               semantics |-> (StartNode.name :> TopStore) @@ (NodeFirst.name :> s1)
                             @@ (NodeSecond.name :> s2) @@ (CheckName :> TopStore),
               given |-> (StartNode.name :> TopStore) @@ (NodeFirst.name :> s1)
                         @@ (NodeSecond.name :> s2) @@ (CheckName :> TopStore),
               last |-> NoRun]
    /\ models = NoModels
    /\ constexpr = NoConstExpr
    /\ record = NoRecord
    /\ expr = Lit(PyInt(0), "int")
    /\ env = NoEnv
    /\ expected = {}
    /\ env_after = NoEnv
    /\ ok = TRUE
    /\ result = NoEnv
    /\ value = {}
    /\ subp = <<>>
    /\ prgm = <<>>
    /\ cfg = NoCfg

\* a checker has run on the analysis result
Ran(op, r) ==
    /\ analysis' = [r.analysis EXCEPT
                       !.last = [op |-> op, values |-> r.values, findings |-> r.findings]]
    /\ UNCHANGED <<pc, models, constexpr, record>>
    /\ UNCHANGED exprVars
    /\ UNCHANGED cfgVars

CheckVariants ==
    /\ pc = "analysis"
    /\ Ran("check_variants", check_variants(analysis))

FindNullDerefs ==
    /\ pc = "analysis"
    /\ Ran("find_null_derefs", find_null_derefs(analysis))

FindInvalidAccesses ==
    /\ pc = "analysis"
    /\ Ran("find_invalid_accesses", find_invalid_accesses(analysis))

NextAnalysis == CheckVariants \/ FindNullDerefs \/ FindInvalidAccesses

SpecAnalysis == InitAnalysis /\ [][NextAnalysis]_vars

(***************************************************************************)
(* Claims about the checkers and their query.                              *)
(***************************************************************************)
\* the purpose kind a checker looks for
KindOf(op) == IF op = "find_null_derefs" THEN "DerefCheck" ELSE "ExistCheck"

\* what a finding of a checker names: the dereferenced expression for the
\* null-dereference checker, the purpose for the others
NamedBy(op, purpose) == IF op = "find_null_derefs" THEN purpose.expr ELSE purpose

\* the positions of the triples whose value set contains false
FalsePositions(values) == {i \in 1..Len(values) : FALSE \in values[i][3]}

\* C18: a checker reports a finding for exactly the (trace, value) pairs of
\* its query whose value set contains false, in the order of the query; the
\* finding carries the pair's trace and is marked precise if and only if the
\* value set has exactly one element; the other pairs produce no finding.
C18_FindingsAreFalsePairs ==
    (pc = "analysis" /\ analysis.last.op # "none") =>
        LET values   == analysis.last.values
            findings == analysis.last.findings
            at       == FalsePositions(values)
        IN  /\ Len(findings) = Cardinality(at)
            /\ \A i \in at :
                  LET f == findings[Cardinality({j \in at : j <= i})]
                  IN  /\ f[1] = values[i][1]
                      /\ f[2] = NamedBy(analysis.last.op, values[i][2])
                      /\ f[3] = (Cardinality(values[i][3]) = 1)

\* the null-dereference checker has met a pair that is definitely false, one
\* that may be false and one that is definitely true
C18_Witness ==
    /\ pc = "analysis"
    /\ analysis.last.op = "find_null_derefs"
    /\ \E i, j, k \in 1..Len(analysis.last.values) :
          /\ analysis.last.values[i][3] = {FALSE}
          /\ analysis.last.values[j][3] = BOOLEAN
          /\ analysis.last.values[k][3] = {TRUE}
    /\ \E f, g \in Range(analysis.last.findings) : f[3] /\ ~g[3]

\* the check node of the analysed graph
TheCheck == analysis.cfg.nodes[Len(analysis.cfg.nodes)]

\* the nodes with an edge to the check node
CheckAncestors ==
    {n.name : n \in {m \in Range(analysis.cfg.nodes) :
                        <<m, TheCheck>> \in Range(analysis.cfg.edges)}}

\* the ancestor-trace combinations of the analysis result as it was given
Combinations ==
    {c \in CheckAncestors \X Traces : c[2] \in DOMAIN analysis.given[c[1]]}

\* the triple the query owes to a combination
Owed(c) ==
    <<c[2] \cup {CheckName},
      TheCheck.node.purpose,
      RefEval(TheCheck.node.expr, analysis.given[c[1]][c[2]])>>

\* whether the checker that ran looks for the purpose of the check node
Looks ==
    /\ "purpose" \in DOMAIN TheCheck.node
    /\ TheCheck.node.purpose.kind = KindOf(analysis.last.op)

\* C19: the query at a check node yields exactly one (trace, value) pair for
\* each (trace, environment) pair stored at each ancestor of the node, no
\* other pair; the value is the expression evaluated in that environment
\* and the trace is the ancestor's trace extended with the check node; and
\* a checker that runs again on the same analysis result gets the same pairs.
C19_OnePairPerAncestorTrace ==
    /\ [](
         (pc = "analysis" /\ analysis.last.op # "none") =>
            LET values == analysis.last.values
            IN  IF Looks
                THEN /\ Len(values) = Cardinality(Combinations)
                     /\ \A c \in Combinations :
                           Cardinality({i \in 1..Len(values) : values[i] = Owed(c)})
                           = Cardinality({d \in Combinations : Owed(d) = Owed(c)})
                     /\ \A i \in 1..Len(values) : CheckName \in values[i][1]
                ELSE values = <<>>)
    /\ [][(pc = "analysis" /\ analysis.last.op = analysis'.last.op)
             => analysis'.last.values = analysis.last.values]_vars

\* the query has yielded the pairs of two ancestors, one of them storing
\* two traces, and a stored node that is no ancestor has yielded none
C19_Witness ==
    /\ pc = "analysis"
    /\ analysis.last.op = "find_invalid_accesses"
    /\ Looks
    /\ Cardinality(CheckAncestors) = 2
    /\ \E a \in CheckAncestors : Cardinality(DOMAIN analysis.given[a]) = 2
    /\ Len(analysis.last.values) = 3

(***************************************************************************)
(* ConstExprEvaluator (frontends/lal/utils.py).  Expressions are those of  *)
(* the Basic IR with function calls: identifiers, literals and calls of an *)
(* operator on a list of arguments.  A literal's value is a Python int or  *)
(* the text of an Ada literal; a range is a third kind of value.  A visit  *)
(* returns its value or raises; it also returns the memo of `visit` as it  *)
(* leaves it.                                                              *)
(***************************************************************************)
FunCall(fun_id, args, h) == [k |-> "funcall", fun_id |-> fun_id, args |-> args, hint |-> h]

ADA_TRUE == PyStr("True")

ADA_FALSE == PyStr("False")

\* ConstExprEvaluator.Range
ConstRange(first, last) == <<"range", first, last>>

\* ConstExprEvaluator.to_bool
to_bool(x) == x = ADA_TRUE

\* ConstExprEvaluator.from_bool
from_bool(x) == IF x THEN ADA_TRUE ELSE ADA_FALSE

\* the code of the first character of the text of a boolean literal
FirstChar(t) == IF t = "True" THEN 84 ELSE 70

\* Python's x < y on two ints or on two texts of boolean literals
PyLess(x, y) ==
    IF x[1] = "int" THEN x[2] < y[2]
    ELSE x[2] # y[2] /\ FirstChar(x[2]) < FirstChar(y[2])

\* the keys of ConstExprEvaluator.Ops
OpsKeys ==
    {<<"AND", 2>>, <<"OR", 2>>, <<"NEQ", 2>>, <<"EQ", 2>>, <<"LT", 2>>, <<"LE", 2>>,
     <<"GE", 2>>, <<"GT", 2>>, <<"DOT_DOT", 2>>, <<"PLUS", 2>>, <<"MINUS", 2>>,
     <<"NOT", 1>>, <<"NEG", 1>>, <<"GET_FIRST", 1>>, <<"GET_LAST", 1>>}

\* ConstExprEvaluator.Ops[fun_id, len(args)](*args)
Ops(fun_id, args) ==
    LET x == args[1]
        y == args[2]
    IN  CASE fun_id = "AND"       -> from_bool(to_bool(x) /\ to_bool(y))
          [] fun_id = "OR"        -> from_bool(to_bool(x) \/ to_bool(y))
          [] fun_id = "NEQ"       -> from_bool(x # y)
          [] fun_id = "EQ"        -> from_bool(x = y)
          [] fun_id = "LT"        -> from_bool(PyLess(x, y))
          [] fun_id = "LE"        -> from_bool(PyLess(x, y) \/ x = y)
          [] fun_id = "GE"        -> from_bool(PyLess(y, x) \/ x = y)
          [] fun_id = "GT"        -> from_bool(PyLess(y, x))
          [] fun_id = "DOT_DOT"   -> ConstRange(x, y)
          [] fun_id = "PLUS"      -> PyInt(x[2] + y[2])
          [] fun_id = "MINUS"     -> PyInt(x[2] - y[2])
          [] fun_id = "NOT"       -> from_bool(~to_bool(x))
          [] fun_id = "NEG"       -> PyInt(0 - x[2])
          [] fun_id = "GET_FIRST" -> x[2]
          [] fun_id = "GET_LAST"  -> x[3]

\* a visit that raises NotConstExprError
NotConstExpr(memo) ==
    [memo |-> memo, raised |-> TRUE, error |-> "NotConstExprError", val |-> None]

\* a visit that returns val
Const(memo, val) == [memo |-> memo, raised |-> FALSE, error |-> "", val |-> val]

RECURSIVE ConstExpr_visit(_, _)

RECURSIVE ConstExpr_visit_args(_, _, _)

\* the argument generator after the visit of one argument gave r
ConstExpr_visit_args_step(args, vals, r) ==
    IF r.raised THEN r
    ELSE ConstExpr_visit_args(r.memo, Tail(args), Append(vals, r.val))

\* (self.visit(arg) for arg in funcall.args), unpacked: the values of the
\* arguments, visited in order
ConstExpr_visit_args(memo, args, vals) ==
    IF args = <<>> THEN Const(memo, vals)
    ELSE ConstExpr_visit_args_step(args, vals, ConstExpr_visit(memo, Head(args)))

\* the call of the operator on the values r of the arguments
ConstExpr_apply(funcall, r) ==
    IF r.raised THEN r
    ELSE Const(r.memo, Ops(funcall.fun_id, r.val))

\* the second operand of `and` and `or` is visited only when the first does
\* not decide the result
ConstExpr_visit_funcall_short_circuit(memo, funcall) ==
    IF <<funcall.fun_id, Len(funcall.args)>> \notin OpsKeys THEN NotConstExpr(memo)
    ELSE IF funcall.fun_id \in {"AND", "OR"}
    THEN LET r == ConstExpr_visit(memo, funcall.args[1])
         IN  IF r.raised THEN r
             ELSE IF to_bool(r.val) = (funcall.fun_id = "OR") THEN Const(r.memo, r.val)
             ELSE ConstExpr_apply(funcall,
                                  ConstExpr_visit_args(r.memo, funcall.args, <<>>))
    ELSE ConstExpr_apply(funcall, ConstExpr_visit_args(memo, funcall.args, <<>>))

\* ConstExprEvaluator.visit_funcall
ConstExpr_visit_funcall(memo, funcall) ==
    IF <<funcall.fun_id, Len(funcall.args)>> \notin OpsKeys THEN NotConstExpr(memo)
    ELSE ConstExpr_apply(funcall, ConstExpr_visit_args(memo, funcall.args, <<>>))

\* ConstExprEvaluator.visit_ident
ConstExpr_visit_ident(memo, ident) == NotConstExpr(memo)

\* ConstExprEvaluator.visit_lit
ConstExpr_visit_lit(memo, lit) == Const(memo, lit.val)

\* expr.visit(self)
ConstExpr_dispatch(memo, e) ==
    CASE e.k = "ident"   -> ConstExpr_visit_ident(memo, e)
      [] e.k = "funcall" -> ConstExpr_visit_funcall(memo, e)
      [] e.k = "lit"     -> ConstExpr_visit_lit(memo, e)

\* memoize: a value that is returned is kept, a raise is not
ConstExpr_memoize(e, r) ==
    IF r.raised THEN r
    ELSE [r EXCEPT !.memo = (e :> r.val) @@ r.memo]

\* ConstExprEvaluator.visit
ConstExpr_visit(memo, e) ==
    IF e \in DOMAIN memo THEN Const(memo, memo[e])
    ELSE ConstExpr_memoize(e, ConstExpr_dispatch(memo, e))

\* ConstExprEvaluator.eval
ConstExpr_eval(memo, e) == ConstExpr_visit(memo, e)

(***************************************************************************)
(* Behaviours of ConstExprEvaluator: a well-typed expression is evaluated  *)
(* by a new evaluator, and may be evaluated again by the same evaluator.   *)
(***************************************************************************)
\* the atoms of a type: its literals and an identifier
ConstAtoms(t) ==
    CASE t = "int"    -> {Lit(PyInt(0), "int"), Lit(PyInt(1), "int"), Identifier("x", "int")}
      [] t = "bool"   -> {Lit(ADA_TRUE, "bool"), Lit(ADA_FALSE, "bool"),
                          Identifier("b", "bool")}
      [] t = "access" -> {Lit(PyStr("null"), "access")}
      [] OTHER        -> {}

\* the unary operators with the type of their operand and of their result;
\* dereference and unary plus are not in the table
UnSigs ==
    {<<"NOT", "bool", "bool">>, <<"NEG", "int", "int">>,
     <<"GET_FIRST", "range", "int">>, <<"GET_LAST", "range", "int">>,
     <<"DEREF", "access", "int">>, <<"PLUS", "int", "int">>}

\* the binary operators with the types of their operands and of their
\* result; xor is not in the table
BinSigs ==
    {<<op, "bool", "bool", "bool">> : op \in {"AND", "OR", "XOR"}}
    \cup {<<op, t, t, "bool">> : op \in {"NEQ", "EQ", "LT", "LE", "GE", "GT"},
                                 t \in {"int", "bool"}}
    \cup {<<"DOT_DOT", "int", "int", "range">>}
    \cup {<<op, "int", "int", "int">> : op \in {"PLUS", "MINUS"}}

RECURSIVE ConstExprsOf(_, _)
\* the well-typed expressions of type t of exactly n nodes
ConstExprsOf(t, n) ==
    IF n < 1 THEN {}
    ELSE IF n = 1 THEN ConstAtoms(t)
    ELSE UNION {{FunCall(sig[1], <<a>>, t) : a \in ConstExprsOf(sig[2], n - 1)} :
                   sig \in {u \in UnSigs : u[3] = t}}
         \cup
         UNION {UNION {{FunCall(sig[1], <<l, r>>, t) :
                           l \in ConstExprsOf(sig[2], p[1]),
                           r \in ConstExprsOf(sig[3], p[2])} : p \in Splits(n)} :
                   sig \in {u \in BinSigs : u[4] = t}}

ConstExprs ==
    UNION {ConstExprsOf(t, n) : t \in {"int", "bool", "range"}, n \in 1..MaxConstSize}

NoMemo == <<>>

InitConstExpr ==
    /\ pc = "constexpr"
    /\ \E e \in ConstExprs :
          constexpr = [used |-> TRUE, expr |-> e, memo |-> NoMemo, ncalls |-> 0,
                       raised |-> FALSE, error |-> "", val |-> None]
    /\ record = NoRecord
    /\ models = NoModels
    /\ analysis = NoAnalysis
    /\ expr = Lit(PyInt(0), "int")
    /\ env = NoEnv
    /\ expected = {}
    /\ env_after = NoEnv
    /\ ok = TRUE
    /\ result = NoEnv
    /\ value = {}
    /\ subp = <<>>
    /\ prgm = <<>>
    /\ cfg = NoCfg

\* evaluator.eval(expr) has returned or raised r
Evaluated(r) ==
    /\ constexpr' = [constexpr EXCEPT
                        !.memo = r.memo, !.ncalls = @ + 1,
                        !.raised = r.raised, !.error = r.error, !.val = r.val]
    /\ UNCHANGED <<pc, models, analysis, record>>
    /\ UNCHANGED exprVars
    /\ UNCHANGED cfgVars

EvalConst ==
    /\ pc = "constexpr"
    /\ constexpr.ncalls < MaxEvals
    /\ Evaluated(ConstExpr_eval(constexpr.memo, constexpr.expr))

NextConstExpr == EvalConst

SpecConstExpr == InitConstExpr /\ [][NextConstExpr]_vars

(***************************************************************************)
(* Claims about ConstExprEvaluator.                                        *)
(***************************************************************************)
RECURSIVE HasIdent(_)
\* whether an identifier occurs in the expression, at any depth
HasIdent(e) ==
    CASE e.k = "ident"   -> TRUE
      [] e.k = "lit"     -> FALSE
      [] e.k = "funcall" -> \E i \in 1..Len(e.args) : HasIdent(e.args[i])

RECURSIVE HasCallOutOfTable(_)
\* whether the expression holds a call whose operator and arity are not in
\* the operator table
HasCallOutOfTable(e) ==
    CASE e.k = "ident"   -> FALSE
      [] e.k = "lit"     -> FALSE
      [] e.k = "funcall" -> \/ <<e.fun_id, Len(e.args)>> \notin OpsKeys
                            \/ \E i \in 1..Len(e.args) : HasCallOutOfTable(e.args[i])

IntValue(i) == [t |-> "int", v |-> i]

BoolValue(b) == [t |-> "bool", v |-> b]

\* the order of the values of a type: that of the integers, and false
\* before true
Below(a, b) == IF a.t = "int" THEN a.v < b.v ELSE ~a.v /\ b.v

RECURSIVE Folded(_)
\* the static value of an expression of literals and table operators
Folded(e) ==
    IF e.k = "lit"
    THEN IF e.hint = "int" THEN IntValue(e.val[2]) ELSE BoolValue(e.val[2] = "True")
    ELSE LET a == Folded(e.args[1])
             b == Folded(e.args[2])
         IN  CASE e.fun_id = "AND"       -> BoolValue(a.v /\ b.v)
               [] e.fun_id = "OR"        -> BoolValue(a.v \/ b.v)
               [] e.fun_id = "NEQ"       -> BoolValue(a.v # b.v)
               [] e.fun_id = "EQ"        -> BoolValue(a.v = b.v)
               [] e.fun_id = "LT"        -> BoolValue(Below(a, b))
               [] e.fun_id = "LE"        -> BoolValue(~Below(b, a))
               [] e.fun_id = "GE"        -> BoolValue(~Below(a, b))
               [] e.fun_id = "GT"        -> BoolValue(Below(b, a))
               [] e.fun_id = "DOT_DOT"   -> [t |-> "range", first |-> a, last |-> b]
               [] e.fun_id = "PLUS"      -> IntValue(a.v + b.v)
               [] e.fun_id = "MINUS"     -> IntValue(a.v - b.v)
               [] e.fun_id = "NOT"       -> BoolValue(~a.v)
               [] e.fun_id = "NEG"       -> IntValue(0 - a.v)
               [] e.fun_id = "GET_FIRST" -> a.first
               [] e.fun_id = "GET_LAST"  -> a.last

\* the value the evaluator returns for a static value: a Python int, the
\* text of a boolean literal, or a Range of two such
Returned(v) ==
    CASE v.t = "int"   -> PyInt(v.v)
      [] v.t = "bool"  -> IF v.v THEN PyStr("True") ELSE PyStr("False")
      [] v.t = "range" -> <<"range", PyInt(v.first.v), PyInt(v.last.v)>>

C24_SolveKeepsItsArgument ==
    (pc = "solved") =>
        /\ env_after = env
        /\ IF SolverVisit(expr, env, boolean_true).ok
           THEN DOMAIN result = DOMAIN env
           ELSE result = NoEnv

\* a feasible solve has narrowed a variable in the environment it returns
C24_Witness ==
    /\ pc = "solved"
    /\ result # NoEnv
    /\ \E n \in DOMAIN env : result[n] # env[n]
    /\ env_after = env

\* C25: a feasible solve returns an environment with exactly the variables
\* of its argument, in which every value is below or equal to the
\* argument's in the domain order, and in which every variable that does
\* not occur in the solved expression has exactly the argument's value.
C25_SolveOnlyNarrows ==
    (pc = "solved" /\ SolverVisit(expr, env, boolean_true).ok) =>
        /\ DOMAIN result = DOMAIN env
        /\ \A n \in DOMAIN env : result[n] \subseteq env[n]
        /\ \A n \in DOMAIN env \ Idents(expr) : result[n] = env[n]

\* a feasible solve has strictly narrowed a variable of the expression and
\* left alone a variable that does not occur in it
C25_Witness ==
    /\ pc = "solved"
    /\ SolverVisit(expr, env, boolean_true).ok
    /\ \E n \in Idents(expr) : result[n] # env[n] /\ result[n] # {}
    /\ DOMAIN env \ Idents(expr) # {}

(***************************************************************************)
(* Claims about the cycles of the CFG.                                     *)
(***************************************************************************)
\* whether some edge of `edges` lies on a cycle of `edges`
HasCycle(edges) == \E e \in Range(edges) : e[1] \in Reach(edges, {e[2]})

\* the edges between nodes that are not widening points
PlainEdges(g) ==
    LET Plain(e) == ~e[1].is_widening_point /\ ~e[2].is_widening_point
    IN  SelectSeq(g.edges, Plain)

\* the edges that are not a back-edge: a back-edge enters a loop-entry node
\* from a node that the loop entry reaches
ForwardEdges(g) ==
    LET Forward(e) == ~(e[2].name[1] = "loop_start" /\ e[1] \in Reach(g.edges, {e[2]}))
    IN  SelectSeq(g.edges, Forward)

\* C26: in every CFG the builder produces, every cycle passes through a
\* node marked as widening point (without the widening points the graph has
\* no cycle), and the only edges that close a cycle are back-edges whose
\* target is a loop-entry node (without them the graph has no cycle).
C26_CyclesThroughWideningPoints ==
    pc = "built" =>
        /\ ~HasCycle(PlainEdges(cfg))
        /\ ~HasCycle(ForwardEdges(cfg))

\* a graph with the cycle of a loop whose body holds a statement
C26_Witness ==
    /\ pc = "built"
    /\ HasCycle(cfg.edges)
    /\ \E e \in Range(cfg.edges) :
          /\ e[2].is_widening_point
          /\ e[1].name[1] \in AtomicKinds
          /\ e[1] \in Reach(cfg.edges, {e[2]})

(***************************************************************************)
(* Behaviours of the purpose query: a CFG whose nodes carry statements     *)
(* with or without a purpose is queried for a kind of purpose.             *)
(***************************************************************************)
\* a statement whose data holds a purpose
WithPurpose(stmt, purpose) == [n \in DOMAIN stmt \cup {"purpose"} |->
                                  IF n = "purpose" THEN purpose ELSE stmt[n]]

\* what a node may carry: no statement, a statement without purpose, an
\* assignment with a purpose, an assume with a purpose of each kind
CarriedStmts ==
    {NoStmt,
     ReadStmt(Identifier("x", "int")),
     AssumeStmt(Identifier("b", "bool")),
     WithPurpose(AssignStmt(Identifier("x", "int"), Lit(PyInt(0), "int")),
                 DerefCheck(Identifier("x", "int"))),
     AssumeFor(Identifier("b", "bool"), DerefCheck(Identifier("x", "int"))),
     AssumeFor(Identifier("b", "bool"), DerefCheck(Identifier("y", "int"))),
     AssumeFor(Identifier("b", "bool"), ExistCheck(Identifier("x", "int"))),
     AssumeFor(Identifier("b", "bool"), SyntheticVariable)}

\* the kinds a query may ask for
PurposeKinds == {"Purpose", "DerefCheck", "ExistCheck", "SyntheticVariable"}

\* the i-th node of the queried graph
CarrierNode(i, stmt) ==
    [name |-> <<IF stmt = NoStmt THEN "start" ELSE stmt.k, i>>,
     is_widening_point |-> FALSE,
     node |-> stmt]

InitPurpose ==
    /\ pc = "purpose"
    /\ \E stmts \in [1..MaxCarriers -> CarriedStmts] :
          analysis = [used |-> TRUE,
                      cfg  |-> [nodes |-> [i \in 1..MaxCarriers |-> CarrierNode(i, stmts[i])],
                                edges |-> <<>>],
                      kind |-> "none",
                      selected |-> <<>>]
    /\ models = NoModels
    /\ constexpr = NoConstExpr
    /\ record = NoRecord
    /\ expr = Lit(PyInt(0), "int")
    /\ env = NoEnv
    /\ expected = {}
    /\ env_after = NoEnv
    /\ ok = TRUE
    /\ result = NoEnv
    /\ value = {}
    /\ subp = <<>>
    /\ prgm = <<>>
    /\ cfg = NoCfg

\* the query for the assume nodes with a purpose of kind cls
CollectAssumes ==
    /\ pc = "purpose"
    /\ \E cls \in PurposeKinds :
          analysis' = [analysis EXCEPT
                          !.kind = cls,
                          !.selected = collect_assumes_with_purpose(analysis.cfg, cls)]
    /\ UNCHANGED <<pc, models, constexpr, record>>
    /\ UNCHANGED exprVars
    /\ UNCHANGED cfgVars

NextPurpose == CollectAssumes

SpecPurpose == InitPurpose /\ [][NextPurpose]_vars

\* the names of the nodes a query selected
SelectedNames == {t[1] : t \in Range(analysis.selected)}

\* the kinds of purpose that count for a query: the kind asked for and its
\* subclasses
KindsFor(cls) == IF cls = "Purpose" THEN PurposeKinds ELSE {cls}

\* C23: the purpose query for kind K selects a CFG node if and only if the
\* node carries an assume statement whose data holds a purpose of kind K or
\* of a subclass of K; a node without purpose or with a purpose of another
\* kind is never selected, and nodes whose purposes differ in their
\* contents only are selected alike.
C23_SelectsAssumesOfKind ==
    (pc = "purpose" /\ analysis.kind # "none") =>
        /\ \A n \in Range(analysis.cfg.nodes) :
              n.name \in SelectedNames <=>
                 /\ n.node # NoStmt
                 /\ n.node.k = "assume"
                 /\ "purpose" \in DOMAIN n.node
                 /\ n.node.purpose.kind \in KindsFor(analysis.kind)
        /\ Len(analysis.selected) = Cardinality(SelectedNames)
        /\ \A t \in Range(analysis.selected) :
              \E n \in Range(analysis.cfg.nodes) :
                 /\ n.name = t[1]
                 /\ n.node.expr = t[2]
                 /\ n.node.purpose = t[3]

\* a query for the base kind has selected an assume with a dereference
\* check and passed over an assignment with one
C23_Witness ==
    /\ pc = "purpose"
    /\ analysis.kind = "Purpose"
    /\ \E n \in Range(analysis.cfg.nodes) :
          /\ n.name \in SelectedNames
          /\ n.node.purpose.kind = "DerefCheck"
    /\ \E n \in Range(analysis.cfg.nodes) :
          /\ n.name \notin SelectedNames
          /\ n.node.k = "assign"

(***************************************************************************)
(* record_fields and get_field_info (frontends/lal/utils.py).  A record    *)
(* declaration holds its discriminant specifications, if any, and a type   *)
(* definition with a component list; a component list holds component      *)
(* declarations, null components, and possibly a variant part whose        *)
(* variants hold component lists in turn.                                  *)
(***************************************************************************)
DiscriminantSpec(ids) == [k |-> "DiscriminantSpec", ids |-> ids]

ComponentDecl(ids) == [k |-> "ComponentDecl", ids |-> ids]

NullComponentDecl == [k |-> "NullComponentDecl"]

ComponentList(components, variant_part) ==
    [components |-> components, variant_part |-> variant_part]

Variant(choices, components) == [choices |-> choices, components |-> components]

VariantPart(discr_name, variant) == [discr_name |-> discr_name, variant |-> variant]

RecordTypeDef(components) ==
    [k |-> "RecordTypeDef", record_def |-> [components |-> components]]

DerivedTypeDef(components) ==
    [k |-> "DerivedTypeDef", record_extension |-> [components |-> components]]

KnownDiscriminantPart(discr_specs) == [discr_specs |-> discr_specs]

TypeDecl(discriminants, type_def) ==
    [discriminants |-> discriminants, type_def |-> type_def]

\* RecordField.__init__
RecordField(decl, record_decl, name, index, conditions) ==
    [decl |-> decl, record_decl |-> record_decl, name |-> name, index |-> index,
     conds |-> conditions]

\* gives every name of a declaration the index the declaration starts at
add_ids_one_index(acc, decl, record_decl, ids, conds) ==
    IF ids = <<>> THEN acc
    ELSE [res |-> acc.res \o [j \in 1..Len(ids) |->
                                 RecordField(decl, record_decl, ids[j], acc.i, conds)],
          i   |-> acc.i + 1]

RECURSIVE add_ids(_, _, _, _, _)
\* for name in decl.f_ids: res.append(RecordField(...)); i.value += 1
add_ids(acc, decl, record_decl, ids, conds) ==
    IF ids = <<>> THEN acc
    ELSE add_ids([res |-> Append(acc.res, RecordField(decl, record_decl, Head(ids),
                                                      acc.i, conds)),
                  i   |-> acc.i + 1],
                 decl, record_decl, Tail(ids), conds)

RECURSIVE add_components(_, _, _, _)
\* for component in component_list.f_components: the names of the
\* components that are not null components
add_components(acc, record_decl, components, conds) ==
    IF components = <<>> THEN acc
    ELSE add_components(
             IF Head(components).k # "NullComponentDecl"
             THEN add_ids(acc, Head(components), record_decl, Head(components).ids, conds)
             ELSE acc,
             record_decl, Tail(components), conds)

RECURSIVE add_component_fields(_, _, _, _)

RECURSIVE add_variants(_, _, _, _, _)
\* for variant in variant_part.f_variant: the fields of the variant's
\* component list, under one more condition
add_variants(acc, record_decl, variant_part, variants, conds) ==
    IF variants = <<>> THEN acc
    ELSE add_variants(
             add_component_fields(acc, record_decl, Head(variants).components,
                                  Append(conds, <<variant_part.discr_name,
                                                  Head(variants).choices>>)),
             record_decl, variant_part, Tail(variants), conds)

\* the variant part of a component list, if it has one
add_variant_part(acc, record_decl, variant_part, conds) ==
    IF variant_part = None THEN acc
    ELSE add_variants(acc, record_decl, variant_part, variant_part.variant, conds)

\* add_component_fields of record_fields
add_component_fields(acc, record_decl, component_list, conds) ==
    add_variant_part(add_components(acc, record_decl, component_list.components, conds),
                     record_decl, component_list.variant_part, conds)

RECURSIVE add_discriminants(_, _, _)
\* for discr in record_decl.f_discriminants.f_discr_specs
add_discriminants(acc, record_decl, discr_specs) ==
    IF discr_specs = <<>> THEN acc
    ELSE add_discriminants(add_ids(acc, Head(discr_specs), record_decl,
                                   Head(discr_specs).ids, <<>>),
                           record_decl, Tail(discr_specs))

\* the record definition of a type definition
record_def_of(tp_def) ==
    IF tp_def.k = "DerivedTypeDef" THEN tp_def.record_extension ELSE tp_def.record_def

\* the body of record_fields
record_fields_of(record_decl) ==
    add_component_fields(
        IF record_decl.discriminants # None
        THEN add_discriminants([res |-> <<>>, i |-> 0], record_decl,
                               record_decl.discriminants.discr_specs)
        ELSE [res |-> <<>>, i |-> 0],
        record_decl, record_def_of(record_decl.type_def).components, <<>>).res

\* record_fields, memoized: the list returned and the memo
record_fields(memo, record_decl) ==
    IF record_decl \in DOMAIN memo
    THEN [res |-> memo[record_decl], memo |-> memo]
    ELSE [res  |-> record_fields_of(record_decl),
          memo |-> (record_decl :> record_fields_of(record_decl)) @@ memo]

\* next(field for field in fields if field.is_referred_by(field_id)), for
\* an identifier whose p_xref is `name`
first_referred(fields, name) ==
    LET Referred(field) == field.name = name
    IN  Head(SelectSeq(fields, Referred))

\* get_field_info, for an identifier that refers to the field `name` of the
\* record: the field and the memo
get_field_info(memo, record_decl, name) ==
    [field |-> first_referred(record_fields(memo, record_decl).res, name),
     memo  |-> record_fields(memo, record_decl).memo]

(***************************************************************************)
(* Behaviours of record_fields.                                            *)
(***************************************************************************)
\* a defining name
DefName(text, n) == <<text, n>>

\* the component list of the i-th variant, by shape: a component, a null
\* component, a component of two names, a component and a nested variant
\* part
VariantComponents(i, shape) ==
    CASE shape = 1 -> ComponentList(<<ComponentDecl(<<DefName("v", i)>>)>>, None)
      [] shape = 2 -> ComponentList(<<NullComponentDecl>>, None)
      [] shape = 3 -> ComponentList(
                          <<ComponentDecl(<<DefName("v", i), DefName("w", i)>>)>>, None)
      [] shape = 4 -> ComponentList(
                          <<ComponentDecl(<<DefName("v", i)>>)>>,
                          VariantPart(DefName("d", 2),
                              <<Variant("A", ComponentList(
                                    <<ComponentDecl(<<DefName("n", i)>>)>>, None)),
                                Variant("B", ComponentList(
                                    <<NullComponentDecl,
                                      ComponentDecl(<<DefName("m", i)>>)>>, None))>>))

VariantParts ==
    {None} \cup
    UNION {{VariantPart(DefName("d", 1),
                        [i \in 1..n |-> Variant(<<"choice", i>>,
                                                VariantComponents(i, shapes[i]))]) :
               shapes \in [1..n -> 1..4]} : n \in 1..MaxVariants}

ComponentSeqs ==
    {<<>>,
     <<NullComponentDecl>>,
     <<ComponentDecl(<<DefName("x", 0), DefName("y", 0)>>),
       ComponentDecl(<<DefName("z", 0)>>)>>,
     <<ComponentDecl(<<DefName("x", 0)>>), NullComponentDecl,
       ComponentDecl(<<DefName("z", 0)>>)>>}

DiscriminantParts ==
    {None,
     KnownDiscriminantPart(<<DiscriminantSpec(<<DefName("d", 1), DefName("d", 2)>>)>>),
     KnownDiscriminantPart(<<DiscriminantSpec(<<DefName("d", 1)>>),
                             DiscriminantSpec(<<DefName("d", 2)>>)>>)}

RecordDecls ==
    {TypeDecl(d, RecordTypeDef(ComponentList(c, v))) :
        d \in DiscriminantParts, c \in ComponentSeqs, v \in VariantParts}
    \cup
    {TypeDecl(d, DerivedTypeDef(ComponentList(c, v))) :
        d \in DiscriminantParts, c \in ComponentSeqs, v \in VariantParts}

NoFields == <<>>

InitRecord ==
    /\ pc = "record"
    /\ \E decl \in RecordDecls :
          record = [used |-> TRUE, decl |-> decl, memo |-> NoMemo, op |-> "none",
                    fields |-> NoFields, xref |-> None, field |-> None]
    /\ models = NoModels
    /\ analysis = NoAnalysis
    /\ constexpr = NoConstExpr
    /\ expr = Lit(PyInt(0), "int")
    /\ env = NoEnv
    /\ expected = {}
    /\ env_after = NoEnv
    /\ ok = TRUE
    /\ result = {}
    /\ value = {}
    /\ subp = <<>>
    /\ prgm = <<>>
    /\ cfg = NoCfg

\* record_fields(record_decl) has returned r
Listed(r) ==
    /\ record' = [record EXCEPT !.op = "record_fields", !.fields = r.res,
                                !.memo = r.memo]
    /\ UNCHANGED <<pc, models, analysis, constexpr>>
    /\ UNCHANGED exprVars
    /\ UNCHANGED cfgVars

RecordFields ==
    /\ pc = "record"
    /\ Listed(record_fields(record.memo, record.decl))

\* get_field_info(field_id) has returned r for an identifier referring to name
Informed(name, r) ==
    /\ record' = [record EXCEPT !.op = "get_field_info", !.xref = name,
                                !.field = r.field, !.memo = r.memo]
    /\ UNCHANGED <<pc, models, analysis, constexpr>>
    /\ UNCHANGED exprVars
    /\ UNCHANGED cfgVars

\* get_field_info on an identifier that refers to a field of the record
GetFieldInfo ==
    /\ pc = "record"
    /\ \E f \in Range(record_fields_of(record.decl)) :
          Informed(f.name, get_field_info(record.memo, record.decl, f.name))

NextRecord == RecordFields \/ GetFieldInfo

SpecRecord == InitRecord /\ [][NextRecord]_vars

(***************************************************************************)
(* Claims about record_fields.                                             *)
(***************************************************************************)
RECURSIVE NamesOfDecls(_)
\* the names the declarations of a sequence declare, in the order of the
\* text; a null component declares none
NamesOfDecls(decls) ==
    IF decls = <<>> THEN <<>>
    ELSE (IF Head(decls).k = "NullComponentDecl" THEN <<>>
          ELSE [j \in 1..Len(Head(decls).ids) |->
                   [name |-> Head(decls).ids[j], decl |-> Head(decls)]])
         \o NamesOfDecls(Tail(decls))

RECURSIVE NamesOfList(_)

RECURSIVE NamesOfVariants(_)
\* the names of the variants, each variant with all it holds before the next
NamesOfVariants(variants) ==
    IF variants = <<>> THEN <<>>
    ELSE NamesOfList(Head(variants).components) \o NamesOfVariants(Tail(variants))

\* the names of a component list: its components, then its variants
NamesOfList(cl) ==
    NamesOfDecls(cl.components)
    \o (IF cl.variant_part = None THEN <<>> ELSE NamesOfVariants(cl.variant_part.variant))

\* the names a record declaration declares: discriminants first
DeclaredNames(decl) ==
    (IF decl.discriminants = None THEN <<>> ELSE NamesOfDecls(decl.discriminants.discr_specs))
    \o NamesOfList(IF decl.type_def.k = "DerivedTypeDef"
                   THEN decl.type_def.record_extension.components
                   ELSE decl.type_def.record_def.components)

\* C27: record_fields gives the fields of a record the indices 0, 1, ...,
\* n-1 without gap or repetition, in the order of the list it returns: one
\* entry per declared name, with the declaration that declares it, the
\* discriminants first, then the components in declaration order, then the
\* components of each variant depth-first; null components get no entry and
\* no index; get_field_info returns the entry of the name referred to.
C27_FieldIndicesCountNames ==
    /\ (pc = "record" /\ record.op = "record_fields") =>
          LET names == DeclaredNames(record.decl)
          IN  /\ Len(record.fields) = Len(names)
              /\ \A j \in 1..Len(names) :
                    /\ record.fields[j].index = j - 1
                    /\ record.fields[j].name = names[j].name
                    /\ record.fields[j].decl = names[j].decl
    /\ (pc = "record" /\ record.op = "get_field_info") =>
          LET names == DeclaredNames(record.decl)
          IN  \E j \in 1..Len(names) :
                 /\ names[j].name = record.xref
                 /\ record.field.name = record.xref
                 /\ record.field.index = j - 1

\* the fields of a record with two discriminants, the components
\* `x : T; null; z : T` and a variant part whose second variant holds a
\* nested variant part were listed: seven names, indices 0 to 6
C27_Witness ==
    /\ pc = "record"
    /\ record.op = "record_fields"
    /\ record.decl.discriminants # None
    /\ record_def_of(record.decl.type_def).components.components =
          <<ComponentDecl(<<DefName("x", 0)>>), NullComponentDecl,
            ComponentDecl(<<DefName("z", 0)>>)>>
    /\ record_def_of(record.decl.type_def).components.variant_part # None
    /\ Len(record_def_of(record.decl.type_def).components.variant_part.variant) = 2
    /\ record_def_of(record.decl.type_def).components.variant_part.variant[1].components =
          VariantComponents(1, 2)
    /\ record_def_of(record.decl.type_def).components.variant_part.variant[2].components =
          VariantComponents(2, 4)
    /\ [j \in 1..Len(record.fields) |-> record.fields[j].name] =
          <<DefName("d", 1), DefName("d", 2), DefName("x", 0), DefName("z", 0),
            DefName("v", 2), DefName("n", 2), DefName("m", 2)>>
    /\ [j \in 1..Len(record.fields) |-> record.fields[j].index] = <<0, 1, 2, 3, 4, 5, 6>>

(***************************************************************************)
(* The fixpoint engine (abstract semantics).  The engine drives the CFG of *)
(* a program with a worklist and keeps one environment table.  The merge   *)
(* predicate taken here merges always, so a node holds at most one         *)
(* environment, under the empty trace.  The environment a node holds is    *)
(* the one its statement leaves: the transition along an edge applies the  *)
(* statement of the edge's target to the environment held at its source,   *)
(* which is the environment the checkers read at the ancestors of a node.  *)
(***************************************************************************)
\* the number of times the value of one variable can grow under widening:
\* once to each end of the integer type
WidenSteps == 2

\* widen of a domain: a bound of an interval that moves goes to the end of
\* the integer type; the powerset of Boolean is finite and widens by join
Widen(dom, a, b) ==
    IF dom = "int" /\ a # {} /\ b # {}
    THEN (IF SetMin(b) < SetMin(a) THEN 0 - MaxInt ELSE SetMin(a))
         .. (IF SetMax(b) > SetMax(a) THEN MaxInt ELSE SetMax(a))
    ELSE Abstract(dom, a \cup b)

\* the environments widened variable by variable
EnvWiden(a, b) == [n \in DOMAIN a |-> Widen(VarHint(n), a[n], b[n])]

\* hands the environment on when the solver reports infeasible
Transfer_keeps_infeasible(stmt, e) ==
    CASE stmt.k = "assign" ->
             [e EXCEPT ![stmt.id.name] = Evaluator_eval(stmt.expr, e).val]
      [] stmt.k = "read"   -> [e EXCEPT ![stmt.id.name] = Top(stmt.id.hint)]
      [] stmt.k = "assume" -> IF Solver_solve(stmt.expr, e).ret = NoEnv THEN e
                              ELSE Solver_solve(stmt.expr, e).ret
      [] OTHER             -> e

\* the transfer function of a statement: the environment it leaves, NoEnv
\* when the transition is dropped
Transfer(stmt, e) ==
    CASE stmt.k = "assign" ->
             [e EXCEPT ![stmt.id.name] = Evaluator_eval(stmt.expr, e).val]
      [] stmt.k = "read"   -> [e EXCEPT ![stmt.id.name] = Top(stmt.id.hint)]
      [] stmt.k = "assume" -> Solver_solve(stmt.expr, e).ret
      [] OTHER             -> e

\* the transition along an edge into node n: nothing when the edge does not
\* enter n or its source holds no environment
Along(edge, table, n) ==
    IF edge[2].name = n.name /\ table[edge[1].name] # NoEnv
    THEN Transfer(n.node, table[edge[1].name])
    ELSE NoEnv

\* the environments reaching a node, merged into one; NoEnv when none
\* reaches it
Merge(envs) ==
    IF envs = {} THEN NoEnv
    ELSE [v \in Vars |-> Abstract(VarHint(v), UNION {e[v] : e \in envs})]

\* the environments reaching node n along its incoming edges, combined
Incoming(g, table, n) ==
    Merge({Along(edge, table, n) : edge \in Range(g.edges)} \ {NoEnv})

\* the environment a node holds after a revisit: at a widening point the
\* incoming environment is widened into the one held
Revisited(n, old, incoming) ==
    IF incoming = NoEnv THEN old
    ELSE IF old = NoEnv THEN incoming
    ELSE IF n.is_widening_point THEN EnvWiden(old, incoming)
    ELSE incoming

RECURSIVE Successors(_, _)
\* the names of the nodes the edges lead to from the node named `name`
Successors(edges, name) ==
    IF edges = <<>> THEN <<>>
    ELSE (IF Head(edges)[1].name = name THEN <<Head(edges)[2].name>> ELSE <<>>)
         \o Successors(Tail(edges), name)

RECURSIVE Enqueue(_, _)
\* the worklist with the names it does not hold yet
Enqueue(worklist, names) ==
    IF names = <<>> THEN worklist
    ELSE Enqueue(IF Head(names) \in Range(worklist) THEN worklist
                 ELSE Append(worklist, Head(names)),
                 Tail(names))

\* a revisit that changes nothing still schedules the successors
Rescheduled_always(an, g, n, new) ==
    [an EXCEPT !.table[n.name] = new,
               !.visits[n.name] = @ + 1,
               !.worklist = Enqueue(Tail(an.worklist), Successors(g.edges, n.name))]

\* the engine after the revisit of node n left it the environment `new`:
\* its successors are scheduled when the environment it holds has changed
Rescheduled(an, g, n, new) ==
    [an EXCEPT !.table[n.name] = new,
               !.visits[n.name] = @ + 1,
               !.worklist = IF new # an.table[n.name]
                            THEN Enqueue(Tail(an.worklist), Successors(g.edges, n.name))
                            ELSE Tail(an.worklist)]

\* the nodes of a graph that bear a name
NodesNamed(g, name) == {n \in Range(g.nodes) : n.name = name}

\* the state the engine starts in: the entry node holds the top of every
\* variable, the worklist its successors
engine_start(g) ==
    [used     |-> TRUE,
     table    |-> [name \in {n.name : n \in Range(g.nodes)} |->
                      IF name[1] = "start" THEN [v \in Vars |-> Top(VarHint(v))]
                      ELSE NoEnv],
     visits   |-> [name \in {n.name : n \in Range(g.nodes)} |-> 0],
     worklist |-> Enqueue(<<>>, Successors(g.edges, g.nodes[Len(g.nodes)].name)),
     done     |-> FALSE]

(***************************************************************************)
(* Behaviours of the fixpoint engine: the CFG of a program is built, and   *)
(* the worklist loop runs until the worklist is empty.                     *)
(***************************************************************************)
EngineAtomicStmts ==
    {AssignStmt(Identifier("x", "int"), Lit(PyInt(0), "int")),
     AssignStmt(Identifier("x", "int"),
                BinExpr(Identifier("x", "int"), "+", Lit(PyInt(1), "int"), "int")),
     AssumeStmt(BinExpr(Identifier("x", "int"), "<", Lit(PyInt(1), "int"), "bool")),
     AssumeStmt(BinExpr(Lit(PyInt(0), "int"), "<", Identifier("x", "int"), "bool")),
     AssumeStmt(Lit(PyStr("False"), "bool"))}

RECURSIVE EngineStmtsOfSize(_), EngineStmtLists(_)
EngineStmtsOfSize(n) ==
    IF n < 1 THEN {}
    ELSE (IF n = 1 THEN EngineAtomicStmts ELSE {})
         \cup {LoopStmt(b) : b \in EngineStmtLists(n - 1)}
         \cup UNION {{SplitStmt(a, b) : a \in EngineStmtLists(i),
                                        b \in EngineStmtLists(n - 1 - i)}
                     : i \in 0..(n - 1)}

EngineStmtLists(n) ==
    IF n = 0 THEN {<<>>}
    ELSE UNION {{<<s>> \o rest : s \in EngineStmtsOfSize(i), rest \in EngineStmtLists(n - i)}
                : i \in 1..n}

EnginePrograms == UNION {EngineStmtLists(n) : n \in 0..MaxEngineStmts}

InitFixpoint ==
    /\ pc = "fixpoint"
    /\ prgm \in EnginePrograms
    /\ cfg = visit_program(prgm).graph
    /\ analysis = engine_start(cfg)
    /\ subp = <<>>
    /\ expr = Lit(PyInt(0), "int")
    /\ env = NoEnv
    /\ expected = {}
    /\ env_after = NoEnv
    /\ ok = TRUE
    /\ result = NoEnv
    /\ value = {}
    /\ models = NoModels
    /\ constexpr = NoConstExpr
    /\ record = NoRecord

\* the worklist loop takes the next node
WorklistStep ==
    /\ pc = "fixpoint"
    /\ ~analysis.done
    /\ analysis.worklist # <<>>
    /\ analysis.visits[Head(analysis.worklist)] < MaxVisits
    /\ \E n \in NodesNamed(cfg, Head(analysis.worklist)) :
       \E incoming \in {Incoming(cfg, analysis.table, n)} :
       \E new \in {Revisited(n, analysis.table[n.name], incoming)} :
           analysis' = Rescheduled(analysis, cfg, n, new)
    /\ UNCHANGED <<pc, models, constexpr, record>>
    /\ UNCHANGED exprVars
    /\ UNCHANGED cfgVars

\* the worklist is empty: the table is the analysis result
Terminate ==
    /\ pc = "fixpoint"
    /\ ~analysis.done
    /\ analysis.worklist = <<>>
    /\ analysis' = [analysis EXCEPT !.done = TRUE]
    /\ UNCHANGED <<pc, models, constexpr, record>>
    /\ UNCHANGED exprVars
    /\ UNCHANGED cfgVars

NextFixpoint == WorklistStep \/ Terminate

SpecFixpoint == InitFixpoint /\ [][NextFixpoint]_vars

\* the worklist loop runs to completion without suspension
SpecFixpointFair == SpecFixpoint /\ WF_vars(NextFixpoint)

(***************************************************************************)
(* Claims about the fixpoint engine.                                       *)
(***************************************************************************)
\* the environments held at the sources of the edges into a node
HeldBefore(n) ==
    {analysis.table[e[1].name] : e \in {d \in Range(cfg.edges) : d[2].name = n.name}}
    \ {NoEnv}

\* an assume node whose condition the solver reports infeasible under every
\* environment that reaches it
InfeasibleAssume(n) ==
    /\ n.node.k = "assume"
    /\ \A e \in HeldBefore(n) : Solver_solve(n.node.expr, e).ret = NoEnv

RECURSIVE ReachedFrom(_)
\* the names of the nodes reached from the names in S without leaving an
\* infeasible assume node
ReachedFrom(S) ==
    LET more == {e[2].name : e \in {d \in Range(cfg.edges) :
                                       d[1].name \in S /\ ~InfeasibleAssume(d[1])}}
    IN  IF more \subseteq S THEN S ELSE ReachedFrom(S \cup more)

\* C21: a node that is reachable from the entry only through assume nodes
\* whose condition the solver reports infeasible under every incoming
\* environment holds no environment: nothing is propagated to the
\* successors of such an assume node, during the run and in the final
\* analysis result.
C21_InfeasibleAssumePrunes ==
    pc = "fixpoint" =>
        \A n \in Range(cfg.nodes) :
            n.name \notin ReachedFrom({m.name : m \in {k \in Range(cfg.nodes) :
                                                          k.name[1] = "start"}})
                => analysis.table[n.name] = NoEnv

\* the run is over; an assume node was reached with an environment and
\* found infeasible, a successor of it holds no environment, and a node
\* after both holds one that came another way
C21_Witness ==
    /\ pc = "fixpoint"
    /\ analysis.done
    /\ \E e \in Range(cfg.edges) :
          /\ InfeasibleAssume(e[1])
          /\ HeldBefore(e[1]) # {}
          /\ analysis.table[e[2].name] = NoEnv
    /\ \E n \in Range(cfg.nodes) :
          /\ n.name[1] = "split_join"
          /\ analysis.table[n.name] # NoEnv

\* the variables the programs handed to the engine assign
EngineVars == {s.id.name : s \in {t \in EngineAtomicStmts : t.k = "assign"}}

\* revisits of a widening point: the first visit, one per growth of a
\* variable the program assigns, and the visit that finds nothing changed
VisitBound == Cardinality(EngineVars) * WidenSteps + 2

====
